---------------------------- MODULE Spec2Model ----------------------------
(***************************************************************************)
(* Model of Source/Engine/ContentImporters/ImportModel.cpp: the model      *)
(* importer of the engine.  ImportModel::Import parses a scene, groups the  *)
(* LOD-0 meshes by name, optionally fans out one nested import per group,   *)
(* selects the meshes of one group, consolidates material slots, restores   *)
(* materials of a previous artifact, repacks lightmap UVs and serializes    *)
(* the result into chunks.                                                  *)
(*                                                                          *)
(* Pointers are modelled as mesh ids into the heap `meshes`; arrays are     *)
(* sequences (0-based indices of the code are kept and shifted by one at    *)
(* the access); floats are fixed-point integers with Unit steps per 1.0.    *)
(***************************************************************************)
EXTENDS Integers, Sequences, FiniteSets, TLC

VARIABLES
    meshes,     \* heap: mesh id -> MeshData (Name, MaterialSlotIndex, Area, LightmapUVs)
    frames,     \* call stack of ImportModel::Import invocations (1 = top level)
    calls,      \* orchestrator calls issued by splitImport, in order
    done,       \* finished Import invocations, in order of return
    deleted,    \* mesh ids released with Delete(mesh), in order
    faults,     \* environment failures so far (parser, orchestrator, packing, chunks, SDF)
    prev,       \* asset stored at the target paths before the import
    pc,         \* position of the function under test (unit specifications)
    data,       \* ModelData of the function under test
    input,      \* the parsed form of the source file / the input of the function under test
    ret         \* its local state / result

vars == <<meshes, frames, calls, done, deleted, faults, prev, pc, data, input, ret>>

importVars == <<frames, calls, done, deleted, faults, prev>>
unitVars == <<pc, data, ret>>

-----------------------------------------------------------------------------
(* Bounds of the model *)

MaxMeshes == 3
MaxLODs == 3
MaxLodMeshes == 2
MaxSlots == 2
MaxFaults == 1
MaxArea == 3
MaxPackMeshes == 3
CrowdMeshes == 110
MaxAnimations == 2
MaxSlotMeshes == 4
MaxSourceSlots == 6
MaxGroupMeshes == 4

-----------------------------------------------------------------------------
(* Strings: sequences of character codes *)

ChBar == 124      \* '|'
ChSpace == 32     \* ' '
ChDot == 46       \* '.'

NameA == <<65>>                  \* "A"
NameAB == <<65, ChBar, 66>>      \* "A|B"
NameCB == <<67, ChBar, 66>>      \* "C|B"
Names == {NameA, NameAB, NameCB}

Min(a, b) == IF a < b THEN a ELSE b
Max(a, b) == IF a > b THEN a ELSE b

RECURSIVE ComparePrefix(_, _, _, _)
ComparePrefix(s, t, i, n) ==
    IF i > n THEN 0
    ELSE IF s[i] # t[i] THEN s[i] - t[i]
    ELSE ComparePrefix(s, t, i + 1, n)

\* StringView::Compare, case sensitive: ordinal on the common prefix, then by length
Compare(s, t) ==
    LET c == ComparePrefix(s, t, 1, Min(Len(s), Len(t)))
    IN  IF c # 0 THEN c
        ELSE IF Len(s) = Len(t) THEN 0
        ELSE IF Len(s) < Len(t) THEN -1 ELSE 1

-----------------------------------------------------------------------------
(* Array<T> *)

Range(s) == {s[i] : i \in 1..Len(s)}

RECURSIVE Find(_, _, _)
\* 1-based index of the first occurrence of item at or after i, 0 when absent
Find(s, item, i) ==
    IF i > Len(s) THEN 0
    ELSE IF s[i] = item THEN i
    ELSE Find(s, item, i + 1)

\* Array::RemoveAt: the last element takes the place of the removed one
RemoveAt(s, i) ==
    IF i = Len(s) THEN SubSeq(s, 1, Len(s) - 1)
    ELSE [k \in 1..(Len(s) - 1) |-> IF k = i THEN s[Len(s)] ELSE s[k]]

\* Array::Remove(item): first occurrence, RemoveAt
Remove(s, item) ==
    LET i == Find(s, item, 1)
    IN  IF i = 0 THEN s ELSE RemoveAt(s, i)

\* Array::RemoveAtKeepOrder
RemoveAtKeepOrder(s, i) == SubSeq(s, 1, i - 1) \o SubSeq(s, i + 1, Len(s))

RECURSIVE RemoveAll(_, _)
\* for (item : items) s.Remove(item)
RemoveAll(s, items) ==
    IF items = << >> THEN s
    ELSE RemoveAll(Remove(s, Head(items)), Tail(items))

RECURSIVE Concat(_)
Concat(ss) == IF ss = << >> THEN << >> ELSE Head(ss) \o Concat(Tail(ss))

\* all sequences over S of length 0..n
SeqsUpTo(S, n) == UNION {[1..k -> S] : k \in 0..n}

\* all orderings of the finite set S
Orderings(S) == {s \in [1..Cardinality(S) -> S] : Range(s) = S}

-----------------------------------------------------------------------------
(* ModelData *)

Unit == 1024

\* a mesh's lightmap chart before packing: normalized to [0,1]x[0,1]
UnitChart == << <<0, 0>>, <<Unit, Unit>> >>

MeshData(name, slot, area) ==
    [Name |-> name, MaterialSlotIndex |-> slot, Area |-> area, LightmapUVs |-> UnitChart]

\* MaterialSlotEntry of the parsed scene at index i
SourceSlot(i) == [Name |-> i, ShadowsMode |-> "All", AssetID |-> 0, Source |-> i]

LodData(ids, k) == [Meshes |-> ids, ScreenSize |-> MaxLODs + 1 - k]

EmptyModelData ==
    [LODs |-> << >>, Materials |-> << >>, Skeleton |-> "none", Nodes |-> "none", Animations |-> << >>]

\* mesh ids of the model, LOD by LOD
AllMeshes(d) == Concat([k \in 1..Len(d.LODs) |-> d.LODs[k].Meshes])

-----------------------------------------------------------------------------
(* SetupMaterialSlots *)

RECURSIVE SetupMeshes(_, _, _, _, _)
\* the two loops of SetupMaterialSlots over the meshes `ids`, LOD by LOD;
\* materialSlotsTable is read and never written
SetupMeshes(heap, dataMaterials, materialSlotsTable, materials, ids) ==
    IF ids = << >> THEN [meshes |-> heap, Materials |-> dataMaterials]
    ELSE LET mesh == Head(ids)
             found == materialSlotsTable[heap[mesh].MaterialSlotIndex + 1]
             newSlotIndex == IF found = -1 THEN Len(dataMaterials) ELSE found
             added == IF found = -1
                      THEN Append(dataMaterials, materials[heap[mesh].MaterialSlotIndex + 1])
                      ELSE dataMaterials
         IN  SetupMeshes([heap EXCEPT ![mesh].MaterialSlotIndex = newSlotIndex],
                         added, materialSlotsTable, materials, Tail(ids))

\* a plausible slip: the new slot is taken from the position of the new index
SetupMaterialSlotsWrongSource(heap, d, materials) ==
    LET r == SetupMeshes(heap, d.Materials, [i \in 1..Len(materials) |-> -1], materials, AllMeshes(d))
    IN  [meshes |-> r.meshes,
         data |-> [d EXCEPT !.Materials =
                      [i \in 1..Len(r.Materials) |-> materials[Min(i, Len(materials))]]]]

SetupMaterialSlots(heap, d, materials) ==
    LET r == SetupMeshes(heap, d.Materials, [i \in 1..Len(materials) |-> -1], materials, AllMeshes(d))
    IN  [meshes |-> r.meshes, data |-> [d EXCEPT !.Materials = r.Materials]]


-----------------------------------------------------------------------------
(* Mesh grouping: ArrayExtensions::GroupBy, Sorting::QuickSort, SortMeshGroups *)

SelectByName(heap, ids, name) == SelectSeq(ids, LAMBDA m : heap[m].Name = name)

\* GroupBy collects the groups in a dictionary and lists them in the dictionary's
\* order, keyOrder; the members of a group keep the order of the source array
GroupBy(heap, ids, keyOrder) ==
    [g \in 1..Len(keyOrder) |-> [Key |-> keyOrder[g], Items |-> SelectByName(heap, ids, keyOrder[g])]]

KeysOf(heap, ids) == {heap[ids[i]].Name : i \in 1..Len(ids)}

SortMeshGroupsDescending(i1, i2) == Compare(i1.Key, i2.Key) > 0

SortMeshGroups(i1, i2) == Compare(i1.Key, i2.Key) < 0

RECURSIVE InsertSorted(_, _)
InsertSorted(sorted, g) ==
    IF sorted = << >> THEN <<g>>
    ELSE IF SortMeshGroups(g, Head(sorted)) THEN <<g>> \o sorted
    ELSE <<Head(sorted)>> \o InsertSorted(Tail(sorted), g)

RECURSIVE QuickSort(_)
\* Sorting::QuickSort(groups, &SortMeshGroups): the groups ordered by the comparer
QuickSort(groups) ==
    IF groups = << >> THEN << >>
    ELSE InsertSorted(QuickSort(Tail(groups)), Head(groups))

\* lines 234-242: group the LOD-0 meshes by name and sort the groups
GroupMeshes(heap, d, keyOrder) ==
    IF Len(d.LODs) # 0 THEN QuickSort(GroupBy(heap, d.LODs[1].Meshes, keyOrder)) ELSE << >>

-----------------------------------------------------------------------------
(* RectPack<LightmapUVsPack, float>: the tree of slots is kept as the        *)
(* sequence of its nodes in the order Insert visits them (a node, its Left   *)
(* subtree, its Right subtree), so the Left and Right pointers are implicit  *)

PackNode(x, y, w, h) == [X |-> x, Y |-> y, Width |-> w, Height |-> h, IsUsed |-> FALSE]

\* the two children a used node leaves of the free node: Left, Right
SplitNode(node, paddedWidth, paddedHeight) ==
    LET remainingWidth == Max(0, node.Width - paddedWidth)
        remainingHeight == Max(0, node.Height - paddedHeight)
    IN  IF remainingHeight <= remainingWidth
        THEN <<PackNode(node.X, node.Y + paddedHeight, paddedWidth, remainingHeight),
               PackNode(node.X + paddedWidth, node.Y, remainingWidth, node.Height)>>
        ELSE <<PackNode(node.X + paddedWidth, node.Y, remainingWidth, paddedHeight),
               PackNode(node.X, node.Y + paddedHeight, node.Width, remainingHeight)>>

\* RectPack::Insert on the root: [tree, found, slot]. A node with children is
\* used, so the search ends at the first free node in visiting order that the
\* padded item fits: it is taken as it is when the sizes are equal, and shrunk
\* to the padded item with two children for the rest otherwise
Insert(tree, itemWidth, itemHeight, itemPadding) ==
    LET paddedWidth == itemWidth + itemPadding
        paddedHeight == itemHeight + itemPadding
        fits == {n \in 1..Len(tree) : /\ ~tree[n].IsUsed
                                      /\ paddedWidth <= tree[n].Width
                                      /\ paddedHeight <= tree[n].Height}
    IN  IF fits = {} THEN [tree |-> tree, found |-> FALSE, slot |-> PackNode(0, 0, 0, 0)]
        ELSE LET n == CHOOSE i \in fits : \A j \in fits : i <= j
                 used == [tree[n] EXCEPT !.Width = paddedWidth, !.Height = paddedHeight, !.IsUsed = TRUE]
                 children == IF tree[n].Width = paddedWidth /\ tree[n].Height = paddedHeight
                             THEN << >>
                             ELSE SplitNode(tree[n], paddedWidth, paddedHeight)
             IN  [tree |-> SubSeq(tree, 1, n - 1) \o <<used>> \o children \o SubSeq(tree, n + 1, Len(tree)),
                  found |-> TRUE, slot |-> used]

-----------------------------------------------------------------------------
(* RepackMeshLightmapUVs *)

TriesCount == 10

RECURSIVE SqrtSearch(_, _, _)
SqrtSearch(x, lo, hi) ==
    IF lo >= hi THEN lo
    ELSE LET mid == (lo + hi + 1) \div 2
         IN  IF mid * mid <= x THEN SqrtSearch(x, mid, hi) ELSE SqrtSearch(x, lo, mid - 1)

\* Math::Sqrt of a fixed-point value
Sqrt(v) == SqrtSearch(v * Unit, 0, Min(Max(Unit, v), 46340))

RECURSIVE SumRange(_, _, _)
\* s[lo] + ... + s[hi], left to right
SumRange(s, lo, hi) ==
    IF lo > hi THEN 0
    ELSE IF lo = hi THEN s[lo]
    ELSE SumRange(s, lo, (lo + hi) \div 2) + SumRange(s, (lo + hi) \div 2 + 1, hi)

Sum(s) == SumRange(s, 1, Len(s))

\* lines 77-87: the LOD-0 meshes with their area and square proxy side
MeshEntries(heap, d) ==
    [i \in 1..Len(d.LODs[1].Meshes) |->
        LET mesh == d.LODs[1].Meshes[i]
        IN  [Mesh |-> mesh, Area |-> heap[mesh].Area, Size |-> Sqrt(heap[mesh].Area)]]

AreaSum(entries) == Sum([i \in 1..Len(entries) |-> entries[i].Area])

ChartsPadding(atlasSize) == (4 * atlasSize) \div 256

\* line 98: the packing region of an attempt
PackRoot(atlasSize) ==
    LET chartsPadding == ChartsPadding(atlasSize)
    IN  PackNode(chartsPadding, chartsPadding, atlasSize - chartsPadding, atlasSize - chartsPadding)

RECURSIVE InsertRange(_, _, _, _, _)
\* the passes lo..hi of the loop of lines 99-109 from the state `packed`, one
\* entry after the other; the loop has stopped once an entry found no room
InsertRange(packed, entries, lo, hi, chartsPadding) ==
    IF packed.failed \/ lo > hi THEN packed
    ELSE IF lo = hi
    THEN LET r == Insert(packed.tree, entries[lo].Size, entries[lo].Size, chartsPadding)
         IN  IF ~r.found THEN [packed EXCEPT !.failed = TRUE]
             ELSE [failed |-> FALSE, tree |-> r.tree, slots |-> Append(packed.slots, r.slot)]
    ELSE InsertRange(InsertRange(packed, entries, lo, (lo + hi) \div 2, chartsPadding),
                     entries, (lo + hi) \div 2 + 1, hi, chartsPadding)

\* lines 99-109: insert the entries in order, stop at the first that finds no room
InsertEntries(tree, entries, chartsPadding) ==
    InsertRange([failed |-> FALSE, tree |-> tree, slots |-> << >>], entries, 1, Len(entries), chartsPadding)

\* x * atlasSizeInv
MulInv(x, atlasSize) == (x * Unit) \div atlasSize

\* uv * uvScale + uvOffset
TransformUV(uv, uvScale, uvOffset) ==
    << (uv[1] * uvScale[1]) \div Unit + uvOffset[1], (uv[2] * uvScale[2]) \div Unit + uvOffset[2] >>

UVOffset(slot, atlasSize) == << MulInv(slot.X, atlasSize), MulInv(slot.Y, atlasSize) >>

\* a plausible slip: the padding of the slot stays in the scale
UVScaleKeepsPadding(slot, chartsPadding, atlasSize) ==
    << MulInv(slot.Width, atlasSize), MulInv(slot.Height, atlasSize) >>

UVScale(slot, chartsPadding, atlasSize) ==
    << MulInv(slot.Width - chartsPadding, atlasSize), MulInv(slot.Height - chartsPadding, atlasSize) >>

\* lines 114-124: move every mesh's lightmap UVs into its slot of the atlas
TransformEntries(heap, entries, packed, atlasSize) ==
    LET chartsPadding == ChartsPadding(atlasSize)
        slotOf(m) == packed.slots[CHOOSE i \in 1..Len(entries) : entries[i].Mesh = m]
    IN  [m \in DOMAIN heap |->
            IF \E i \in 1..Len(entries) : entries[i].Mesh = m
            THEN [heap[m] EXCEPT !.LightmapUVs =
                    [k \in 1..Len(heap[m].LightmapUVs) |->
                        TransformUV(heap[m].LightmapUVs[k],
                                    UVScale(slotOf(m), chartsPadding, atlasSize),
                                    UVOffset(slotOf(m), atlasSize))]]
            ELSE heap[m]]

\* lines 77-93: the state of the function when it reaches the loop
RepackEnter(heap, d) ==
    LET entries == MeshEntries(heap, d)
        areaSum == AreaSum(entries)
    IN  [entries |-> entries,
         areaSum |-> areaSum,
         atlasSize |-> IF areaSum > 0 THEN (Sqrt(areaSum) * 102) \div 100 ELSE 0,
         triesLeft |-> IF areaSum > 0 THEN TriesCount ELSE 0,
         attempts |-> 0,
         region |-> << >>,
         slots |-> << >>,
         failed |-> FALSE,
         writes |-> 0,
         running |-> areaSum > 0]

\* a plausible slip: a successful pass does not leave the loop
RepackAttemptNoBreak(heap, st) ==
    LET packed == InsertEntries(<<PackRoot(st.atlasSize)>>, st.entries, ChartsPadding(st.atlasSize))
    IN  [meshes |-> IF packed.failed THEN heap ELSE TransformEntries(heap, st.entries, packed, st.atlasSize),
         st |-> [st EXCEPT !.triesLeft = st.triesLeft - 1,
                           !.attempts = st.attempts + 1,
                           !.region = <<PackRoot(st.atlasSize)>>,
                           !.slots = IF packed.failed THEN << >> ELSE packed.slots,
                           !.failed = packed.failed,
                           !.atlasSize = IF packed.failed THEN (st.atlasSize * 3) \div 2 ELSE st.atlasSize,
                           !.writes = IF packed.failed THEN st.writes ELSE st.writes + 1]]

\* lines 94-127: one pass of while (triesLeft--), entered with triesLeft # 0
RepackAttempt(heap, st) ==
    LET packed == InsertEntries(<<PackRoot(st.atlasSize)>>, st.entries, ChartsPadding(st.atlasSize))
    IN  [meshes |-> IF packed.failed THEN heap ELSE TransformEntries(heap, st.entries, packed, st.atlasSize),
         st |-> [st EXCEPT !.triesLeft = st.triesLeft - 1,
                           !.attempts = st.attempts + 1,
                           !.region = <<PackRoot(st.atlasSize)>>,
                           !.slots = IF packed.failed THEN << >> ELSE packed.slots,
                           !.failed = packed.failed,
                           !.atlasSize = IF packed.failed THEN (st.atlasSize * 3) \div 2 ELSE st.atlasSize,
                           !.writes = IF packed.failed THEN st.writes ELSE st.writes + 1,
                           !.running = packed.failed]]

RECURSIVE RepackLoop(_, _)
RepackLoop(heap, st) ==
    IF ~st.running \/ st.triesLeft = 0 THEN heap
    ELSE LET r == RepackAttempt(heap, st) IN RepackLoop(r.meshes, r.st)

\* the whole function: the heap it leaves
RepackMeshLightmapUVs(heap, d) == RepackLoop(heap, RepackEnter(heap, d))

-----------------------------------------------------------------------------
(* TryRestoreMaterials *)

\* the material slot i of a previously imported model
PreviousSlot(i) == [Name |-> 100 + i, ShadowsMode |-> "None", Material |-> 200 + i]

NoAsset == [File |-> FALSE, Asset |-> FALSE, Loaded |-> FALSE, TypeName |-> "none", MaterialSlots |-> << >>]

ModelAsset(typeName, n) ==
    [File |-> TRUE, Asset |-> TRUE, Loaded |-> TRUE, TypeName |-> typeName,
     MaterialSlots |-> [i \in 1..n |-> PreviousSlot(i - 1)]]

\* what Content may hold at the target path
PreviousAssets ==
    {NoAsset,
     [NoAsset EXCEPT !.File = TRUE],
     [NoAsset EXCEPT !.File = TRUE, !.Asset = TRUE, !.TypeName = "Model",
                     !.MaterialSlots = <<PreviousSlot(0)>>],
     ModelAsset("Animation", 0)}
    \cup {ModelAsset("Model", n) : n \in 0..MaxSlots}
    \cup {ModelAsset("SkinnedModel", MaxSlots)}

\* a plausible slip: the loop bound of the other table
TryRestoreMaterialsUnbounded(asset, materials) ==
    [i \in 1..Len(materials) |->
        LET srcSlot == asset.MaterialSlots[Min(i, Len(asset.MaterialSlots))]
        IN  IF Len(asset.MaterialSlots) > 0 /\ asset.TypeName \in {"Model", "SkinnedModel"}
            THEN [materials[i] EXCEPT !.Name = srcSlot.Name,
                                      !.ShadowsMode = srcSlot.ShadowsMode,
                                      !.AssetID = srcSlot.Material]
            ELSE materials[i]]

\* lines 131-171: the material table after the restore
TryRestoreMaterials(asset, materials) ==
    IF ~asset.File THEN materials
    ELSE IF ~asset.Asset THEN materials
    ELSE IF ~asset.Loaded THEN materials
    ELSE IF asset.TypeName \notin {"Model", "SkinnedModel"} THEN materials
    ELSE [i \in 1..Len(materials) |->
            IF Len(asset.MaterialSlots) > i - 1
            THEN [materials[i] EXCEPT !.Name = asset.MaterialSlots[i].Name,
                                      !.ShadowsMode = asset.MaterialSlots[i].ShadowsMode,
                                      !.AssetID = asset.MaterialSlots[i].Material]
            ELSE materials[i]]


-----------------------------------------------------------------------------
(* CreateAssetContext and the serializers CreateModel, CreateSkinnedModel,  *)
(* CreateAnimation                                                          *)

SDFChunk == 15

NoFault == [kind |-> "none", at |-> 0]

ChunkIndices == 0..15

\* CreateAssetContext::AllocateChunk: [failed, context]
AllocateChunk(context, index, fault) ==
    LET failed == \/ (fault.kind = "alloc" /\ fault.at = index)
                  \/ index \notin ChunkIndices
                  \/ index \in DOMAIN context.Chunks
    IN  [failed |-> failed,
         context |-> [context EXCEPT !.Allocs = Append(@, index),
                                     !.Chunks = IF failed THEN @ ELSE (index :> << >>) @@ @]]

WriteChunk(context, index, bytes) == [context EXCEPT !.Chunks[index] = bytes]

\* ModelData::Pack2ModelHeader / Pack2SkinnedModelHeader fail on a model without
\* LODs or with an empty LOD, and when the stream fails
PackHeaderFails(d, fault) ==
    \/ fault.kind = "header"
    \/ Len(d.LODs) = 0
    \/ \E k \in 1..Len(d.LODs) : Len(d.LODs[k].Meshes) = 0

HeaderBytes(typeName, d) ==
    [Header |-> typeName, LODs |-> Len(d.LODs), Materials |-> d.Materials]

\* the packed meshes of a LOD; a skinned model starts with the mesh data version
LodBytes(typeName, lod) ==
    [Version |-> IF typeName = "SkinnedModel" THEN <<1>> ELSE << >>, Meshes |-> lod.Meshes]

RECURSIVE PackLODs(_, _, _, _, _)
\* lines 452-471 / 502-524, from lodIndex on: [result, context]
PackLODs(context, d, lodIndex, typeName, fault) ==
    IF lodIndex >= Len(d.LODs) THEN [result |-> "Ok", context |-> context]
    ELSE IF fault.kind = "pack" /\ fault.at = lodIndex
    THEN [result |-> "Error", context |-> context]
    ELSE LET chunkIndex == lodIndex + 1
             a == AllocateChunk(context, chunkIndex, fault)
         IN  IF a.failed THEN [result |-> "CannotAllocateChunk", context |-> a.context]
             ELSE PackLODs(WriteChunk(a.context, chunkIndex, LodBytes(typeName, d.LODs[lodIndex + 1])),
                           d, lodIndex + 1, typeName, fault)

\* lines 473-483
GenerateSDF(context, options, fault) ==
    IF options.GenerateSDF /\ fault.kind # "sdf"
    THEN LET a == AllocateChunk(context, SDFChunk, fault)
         IN  IF a.failed THEN [result |-> "CannotAllocateChunk", context |-> a.context]
             ELSE [result |-> "Ok", context |-> WriteChunk(a.context, SDFChunk, [SDF |-> TRUE])]
    ELSE [result |-> "Ok", context |-> context]

\* a plausible slip: the SDF chunk is written although its generation failed
CreateModelKeepsFailedSDF(context, d, options, fault) ==
    LET c == [context EXCEPT !.TypeName = "Model"]
        a == AllocateChunk(c, 0, fault)
        lods == PackLODs(WriteChunk(a.context, 0, HeaderBytes("Model", d)), d, 0, "Model", fault)
    IN  IF PackHeaderFails(d, fault) THEN [result |-> "Error", context |-> c]
        ELSE IF a.failed THEN [result |-> "CannotAllocateChunk", context |-> a.context]
        ELSE IF lods.result # "Ok" THEN lods
        ELSE GenerateSDF(lods.context, options, NoFault)

CreateModel(context, d, options, fault) ==
    LET c == [context EXCEPT !.TypeName = "Model"]
        a == AllocateChunk(c, 0, fault)
        lods == PackLODs(WriteChunk(a.context, 0, HeaderBytes("Model", d)), d, 0, "Model", fault)
    IN  IF PackHeaderFails(d, fault) THEN [result |-> "Error", context |-> c]
        ELSE IF a.failed THEN [result |-> "CannotAllocateChunk", context |-> a.context]
        ELSE IF lods.result # "Ok" THEN lods
        ELSE GenerateSDF(lods.context, options, fault)

\* a plausible slip: the chunk of the header is allocated before the header is packed
CreateSkinnedModelAllocatesFirst(context, d, options, fault) ==
    LET c == [context EXCEPT !.TypeName = "SkinnedModel"]
        a == AllocateChunk(c, 0, fault)
    IN  IF a.failed THEN [result |-> "CannotAllocateChunk", context |-> a.context]
        ELSE IF PackHeaderFails(d, fault) THEN [result |-> "Error", context |-> a.context]
        ELSE PackLODs(WriteChunk(a.context, 0, HeaderBytes("SkinnedModel", d)), d, 0, "SkinnedModel", fault)

CreateSkinnedModel(context, d, options, fault) ==
    LET c == [context EXCEPT !.TypeName = "SkinnedModel"]
        a == AllocateChunk(c, 0, fault)
    IN  IF PackHeaderFails(d, fault) THEN [result |-> "Error", context |-> c]
        ELSE IF a.failed THEN [result |-> "CannotAllocateChunk", context |-> a.context]
        ELSE PackLODs(WriteChunk(a.context, 0, HeaderBytes("SkinnedModel", d)), d, 0, "SkinnedModel", fault)

\* line 535
AnimIndex(options) == IF options.ObjectIndex # -1 THEN options.ObjectIndex ELSE 0

\* ModelData::Pack2AnimationHeader fails when the model has no such animation,
\* and when the stream fails
PackAnimationHeaderFails(d, animIndex, fault) ==
    fault.kind = "header" \/ animIndex < 0 \/ animIndex >= Len(d.Animations)

CreateAnimation(context, d, options, fault) ==
    LET c == [context EXCEPT !.TypeName = "Animation"]
        animIndex == AnimIndex(options)
        a == AllocateChunk(c, 0, fault)
    IN  IF PackAnimationHeaderFails(d, animIndex, fault)
        THEN [result |-> "Error", context |-> c]
        ELSE IF a.failed THEN [result |-> "CannotAllocateChunk", context |-> a.context]
        ELSE [result |-> "Ok",
              context |-> WriteChunk(a.context, 0, [Header |-> "Animation", Animation |-> d.Animations[animIndex + 1]])]

\* Options::Serialize: the import options without the cache reference
SerializeOptions(options) == [options EXCEPT !.Cached = FALSE]

\* a plausible slip: the metadata is written whatever the serializer returned
CreateAssetMetaAlways(context, d, options, fault) ==
    LET r == IF options.Type = "Model" THEN CreateModel(context, d, options, fault)
             ELSE IF options.Type = "SkinnedModel" THEN CreateSkinnedModel(context, d, options, fault)
             ELSE CreateAnimation(context, d, options, fault)
    IN  [r EXCEPT !.context.Metadata = <<SerializeOptions(options)>>]

\* lines 385-417: the switch over the type, then the import-options metadata
CreateAsset(context, d, options, fault) ==
    LET r == IF options.Type = "Model" THEN CreateModel(context, d, options, fault)
             ELSE IF options.Type = "SkinnedModel" THEN CreateSkinnedModel(context, d, options, fault)
             ELSE CreateAnimation(context, d, options, fault)
    IN  IF r.result # "Ok" THEN r
        ELSE [r EXCEPT !.context.Metadata = <<SerializeOptions(options)>>]

\* the failures of the environment a serialization of d can meet: none when
\* the header of d cannot be packed anyway, the serializer returns before
CreateFaults(d, options) ==
    IF options.Type = "Animation"
    THEN IF PackAnimationHeaderFails(d, AnimIndex(options), NoFault) THEN {}
         ELSE {[kind |-> "header", at |-> 0], [kind |-> "alloc", at |-> 0]}
    ELSE IF PackHeaderFails(d, NoFault) THEN {}
    ELSE {[kind |-> "header", at |-> 0], [kind |-> "alloc", at |-> 0]}
         \cup {[kind |-> "pack", at |-> k] : k \in 0..(Len(d.LODs) - 1)}
         \cup {[kind |-> "alloc", at |-> k] : k \in 1..Len(d.LODs)}
         \cup (IF options.Type = "Model" /\ options.GenerateSDF
               THEN {[kind |-> "sdf", at |-> 0], [kind |-> "alloc", at |-> SDFChunk]}
               ELSE {})

-----------------------------------------------------------------------------
(* Paths *)

FlaxExtension == <<ChDot, 102, 108, 97, 120>>      \* ".flax"
TopTargetPath == <<77>> \o FlaxExtension            \* "M.flax"
TopInputPath == <<77, ChDot, 120>>                  \* "M.x"

RECURSIVE FindLast(_, _, _)
\* String::FindLast: 0-based index of the last c at or before position i, -1 when absent
FindLast(str, c, i) ==
    IF i < 1 THEN -1
    ELSE IF str[i] = c THEN i - 1
    ELSE FindLast(str, c, i - 1)

\* String::Substring(startIndex)
Substring(str, startIndex) == SubSeq(str, startIndex + 1, Len(str))

\* StringUtils::GetPathWithoutExtension
GetPathWithoutExtension(path) ==
    LET dot == FindLast(path, ChDot, Len(path))
    IN  IF dot = -1 THEN path ELSE SubSeq(path, 1, dot)

\* lines 261-265: the output path of the split object objectName
SplitOutputPath(targetAssetPath, objectName) ==
    LET splitPos == FindLast(objectName, ChBar, Len(objectName))
        postFix == IF splitPos # -1 THEN Substring(objectName, splitPos + 1) ELSE objectName
    IN  GetPathWithoutExtension(targetAssetPath) \o <<ChSpace>> \o postFix \o FlaxExtension

-----------------------------------------------------------------------------
(* ImportModel::Import *)

NewContext(inputPath, targetAssetPath) ==
    [InputPath |-> inputPath, TargetAssetPath |-> targetAssetPath, TypeName |-> "none",
     Chunks |-> << >>, Allocs |-> << >>, Metadata |-> << >>]

\* an invocation of Import at its entry
NewFrame(options, context) ==
    [pc |-> "begin", request |-> options, options |-> options, context |-> context,
     usesCache |-> options.Cached, dataIsThis |-> FALSE, dataThis |-> EmptyModelData, meshesByName |-> << >>,
     splitOptions |-> options, groupIndex |-> 0, meshesToDelete |-> << >>]

Depth == Len(frames)
Frame == frames[Depth]

\* options.Cached->Data and ->MeshesByName: the model and groups of the splitting call
SharedData == frames[1].dataThis
SharedGroups == frames[1].meshesByName

\* *data and meshesByName of the running invocation
CurrentData(f) == IF f.dataIsThis THEN f.dataThis ELSE SharedData
CurrentGroups(f) == IF f.usesCache THEN SharedGroups ELSE f.meshesByName

IsModelType(type) == type \in {"Model", "SkinnedModel"}

\* a plausible slip: the loops of lines 274 and 283 end when a nested import failed
SplitCountUntilFailure(f) ==
    IF \E j \in 1..Len(done) : done[j].Result # "Ok" THEN 0
    ELSE IF IsModelType(f.options.Type) THEN Len(CurrentGroups(f)) ELSE Len(CurrentData(f).Animations)

\* the number of units the loops of lines 274 and 283 run over
SplitCount(f) ==
    IF IsModelType(f.options.Type) THEN Len(CurrentGroups(f)) ELSE Len(CurrentData(f).Animations)

SplitName(f, index) ==
    IF IsModelType(f.options.Type) THEN CurrentGroups(f)[index + 1].Key
    ELSE CurrentData(f).Animations[index + 1]

\* the record of a finished invocation
Finished(f, result, context, d) ==
    [Request |-> f.request, Stage |-> f.pc, Fault |-> NoFault,
     ObjectIndex |-> f.options.ObjectIndex, Type |-> f.options.Type, Depth |-> Depth,
     Path |-> context.TargetAssetPath, Result |-> result,
     LODs |-> [k \in 1..Len(d.LODs) |-> d.LODs[k].Meshes], Materials |-> d.Materials,
     Chunks |-> context.Chunks, Allocs |-> context.Allocs, Metadata |-> context.Metadata]

\* a plausible slip: the loop over the units does not advance on the return
ReturnKeepsIndex(stack) ==
    IF Len(stack) = 1 THEN << >> ELSE SubSeq(stack, 1, Len(stack) - 1)

\* the stack after the running invocation returns: the caller's loop goes on
Return(stack) ==
    IF Len(stack) = 1 THEN << >>
    ELSE [SubSeq(stack, 1, Len(stack) - 1) EXCEPT ![Len(stack) - 1].groupIndex = @ + 1]

\* a plausible slip: the loop over the units starts at the first one
BeginSplitFromZero(f) ==
    IF f.options.SplitObjects
    THEN LET options == [f.options EXCEPT !.SplitObjects = FALSE, !.ObjectIndex = 0, !.Cached = TRUE]
         IN  [f EXCEPT !.pc = "split", !.options = options, !.splitOptions = options, !.groupIndex = 0]
    ELSE [f EXCEPT !.pc = "select"]

\* a plausible slip: the options of the siblings are copied before the split is switched off
BeginSplitKeepsFlag(f) ==
    IF f.options.SplitObjects
    THEN LET options == [f.options EXCEPT !.SplitObjects = FALSE, !.ObjectIndex = 0, !.Cached = TRUE]
         IN  [f EXCEPT !.pc = "split", !.options = options,
                       !.splitOptions = [options EXCEPT !.SplitObjects = TRUE], !.groupIndex = 1]
    ELSE [f EXCEPT !.pc = "select"]

\* lines 248-268: the set-up of the split
BeginSplit(f) ==
    IF f.options.SplitObjects
    THEN LET options == [f.options EXCEPT !.SplitObjects = FALSE, !.ObjectIndex = 0, !.Cached = TRUE]
         IN  [f EXCEPT !.pc = "split", !.options = options, !.splitOptions = options, !.groupIndex = 1]
    ELSE [f EXCEPT !.pc = "select"]

\* lines 200-230: the parser fails
ImportParseFails ==
    /\ Depth > 0 /\ Frame.pc = "begin" /\ ~Frame.options.Cached
    /\ faults < MaxFaults
    /\ faults' = faults + 1
    /\ done' = Append(done, [Finished(Frame, "Error", Frame.context, EmptyModelData)
                               EXCEPT !.Fault = [kind |-> "parse", at |-> 0]])
    /\ frames' = Return(frames)
    /\ UNCHANGED <<meshes, input, calls, deleted, prev, unitVars>>

\* lines 200-268: the options, the parsed or cached model, the groups, the split set-up
ImportBegin ==
    /\ Depth > 0 /\ Frame.pc = "begin"
    /\ IF Frame.options.Cached
       THEN frames' = [frames EXCEPT ![Depth] = BeginSplit(Frame)]
       ELSE \E keyOrder \in Orderings(IF Len(input.LODs) = 0 THEN {} ELSE KeysOf(meshes, input.LODs[1].Meshes)) :
               frames' = [frames EXCEPT ![Depth] =
                            BeginSplit([Frame EXCEPT !.dataIsThis = TRUE,
                                                     !.dataThis = input,
                                                     !.meshesByName = GroupMeshes(meshes, input, keyOrder)])]
    /\ UNCHANGED <<meshes, input, calls, done, deleted, faults, prev, unitVars>>

\* the call of the orchestrator for the unit groupIndex
SplitCall(f) ==
    [ObjectIndex |-> f.groupIndex, SplitObjects |-> f.splitOptions.SplitObjects,
     Cached |-> f.splitOptions.Cached, Type |-> f.splitOptions.Type,
     InputPath |-> f.context.InputPath,
     OutputPath |-> SplitOutputPath(f.context.TargetAssetPath, SplitName(f, f.groupIndex)),
     Depth |-> Depth, Returned |-> Len(done)]

\* lines 274-279 / 283-288 with 258-267: the orchestrator runs the nested import
SplitImport ==
    /\ Depth > 0 /\ Frame.pc = "split" /\ Frame.groupIndex < SplitCount(Frame)
    /\ calls' = Append(calls, SplitCall(Frame))
    /\ frames' = Append(frames,
                    NewFrame([Frame.splitOptions EXCEPT !.ObjectIndex = Frame.groupIndex],
                             NewContext(Frame.context.InputPath, SplitCall(Frame).OutputPath)))
    /\ UNCHANGED <<meshes, input, done, deleted, faults, prev, unitVars>>

\* the same call when the orchestrator fails before it reaches the importer
SplitImportFails ==
    /\ Depth > 0 /\ Frame.pc = "split" /\ Frame.groupIndex < SplitCount(Frame)
    /\ faults < MaxFaults
    /\ faults' = faults + 1
    /\ calls' = Append(calls, SplitCall(Frame))
    /\ frames' = [frames EXCEPT ![Depth].groupIndex = @ + 1]
    /\ UNCHANGED <<meshes, input, done, deleted, prev, unitVars>>


Reverse(s) == [i \in 1..Len(s) |-> s[Len(s) + 1 - i]]

\* a plausible slip: the further LODs are not filtered by the name of the group
KeepGroupLODsUnfiltered(heap, lods, key, lodIndex, meshesToDelete) ==
    [LODs |-> lods, meshesToDelete |-> meshesToDelete]

RECURSIVE KeepGroupLODs(_, _, _, _, _)
\* lines 313-325 from lodIndex on: [LODs, meshesToDelete]
KeepGroupLODs(heap, lods, key, lodIndex, meshesToDelete) ==
    IF lodIndex >= Len(lods) THEN [LODs |-> lods, meshesToDelete |-> meshesToDelete]
    ELSE LET lodMeshes == lods[lodIndex + 1].Meshes
         IN  KeepGroupLODs(heap,
                           [lods EXCEPT ![lodIndex + 1].Meshes = SelectByName(heap, lodMeshes, key)],
                           key, lodIndex + 1,
                           meshesToDelete \o SelectSeq(lodMeshes, LAMBDA m : heap[m].Name # key))

\* a plausible slip: the meshes of the group stay on the list of the meshes to delete
SelectDestructiveReleasesGroup(heap, f, group) ==
    LET lod0 == f.dataThis.LODs[1]
        kept == KeepGroupLODs(heap, [f.dataThis.LODs EXCEPT ![1].Meshes = group.Items], group.Key, 1,
                              lod0.Meshes)
        setup == SetupMaterialSlots(heap, [f.dataThis EXCEPT !.LODs = kept.LODs, !.Materials = << >>],
                                    f.dataThis.Materials)
    IN  [meshes |-> setup.meshes,
         frame |-> [f EXCEPT !.dataThis = setup.data, !.meshesToDelete = kept.meshesToDelete],
         shared |-> setup.data]

\* lines 300-333: the parsed model keeps the meshes of the group only
SelectDestructive(heap, f, group) ==
    LET lod0 == f.dataThis.LODs[1]
        kept == KeepGroupLODs(heap, [f.dataThis.LODs EXCEPT ![1].Meshes = group.Items], group.Key, 1,
                              RemoveAll(lod0.Meshes, group.Items))
        setup == SetupMaterialSlots(heap, [f.dataThis EXCEPT !.LODs = kept.LODs, !.Materials = << >>],
                                    f.dataThis.Materials)
    IN  [meshes |-> setup.meshes,
         frame |-> [f EXCEPT !.dataThis = setup.data, !.meshesToDelete = kept.meshesToDelete],
         shared |-> setup.data]

RECURSIVE MoveGroupLODsPastGap(_, _, _, _, _)
\* a plausible slip: a LOD without a mesh of the name is skipped and the scan goes on
MoveGroupLODsPastGap(heap, shared, lods, key, lodIndex) ==
    IF lodIndex >= Len(shared.LODs) THEN [shared |-> shared, LODs |-> lods]
    ELSE LET lodMeshes == SelectByName(heap, shared.LODs[lodIndex + 1].Meshes, key)
         IN  IF Len(lodMeshes) = 0
             THEN MoveGroupLODsPastGap(heap, shared, lods, key, lodIndex + 1)
             ELSE MoveGroupLODsPastGap(heap,
                                [shared EXCEPT !.LODs[lodIndex + 1].Meshes = RemoveAll(@, Reverse(lodMeshes))],
                                Append(lods, [Meshes |-> lodMeshes,
                                              ScreenSize |-> shared.LODs[lodIndex + 1].ScreenSize]),
                                key, lodIndex + 1)

RECURSIVE MoveGroupLODs(_, _, _, _, _)
\* lines 348-364 from lodIndex on: [shared, LODs], the LODs of the new model
MoveGroupLODs(heap, shared, lods, key, lodIndex) ==
    IF lodIndex >= Len(shared.LODs) THEN [shared |-> shared, LODs |-> lods]
    ELSE LET lodMeshes == SelectByName(heap, shared.LODs[lodIndex + 1].Meshes, key)
         IN  IF Len(lodMeshes) = 0 THEN [shared |-> shared, LODs |-> lods]
             ELSE MoveGroupLODs(heap,
                                [shared EXCEPT !.LODs[lodIndex + 1].Meshes = RemoveAll(@, Reverse(lodMeshes))],
                                Append(lods, [Meshes |-> lodMeshes,
                                              ScreenSize |-> shared.LODs[lodIndex + 1].ScreenSize]),
                                key, lodIndex + 1)

\* a plausible slip: the meshes of the group are copied and stay in the shared model
SelectTransferCopies(heap, f, shared, group) ==
    LET moved == MoveGroupLODs(heap, shared,
                               <<[Meshes |-> group.Items, ScreenSize |-> shared.LODs[1].ScreenSize]>>,
                               group.Key, 1)
        setup == SetupMaterialSlots(heap, [f.dataThis EXCEPT !.Skeleton = shared.Skeleton,
                                                             !.Nodes = shared.Nodes,
                                                             !.LODs = moved.LODs],
                                    shared.Materials)
    IN  [meshes |-> setup.meshes,
         frame |-> [f EXCEPT !.dataThis = setup.data, !.dataIsThis = TRUE],
         shared |-> shared]

\* a plausible slip: the shared material table is cleared as in the other branch
SelectTransferClearsMaterials(heap, f, shared, group) ==
    LET moved == MoveGroupLODs(heap,
                               [shared EXCEPT !.LODs[1].Meshes = RemoveAll(@, group.Items)],
                               <<[Meshes |-> group.Items, ScreenSize |-> shared.LODs[1].ScreenSize]>>,
                               group.Key, 1)
        setup == SetupMaterialSlots(heap, [f.dataThis EXCEPT !.Skeleton = shared.Skeleton,
                                                             !.Nodes = shared.Nodes,
                                                             !.LODs = moved.LODs],
                                    shared.Materials)
    IN  [meshes |-> setup.meshes,
         frame |-> [f EXCEPT !.dataThis = setup.data, !.dataIsThis = TRUE],
         shared |-> [moved.shared EXCEPT !.Materials = << >>]]

\* lines 334-369: a new model takes the meshes of the group out of the shared one
SelectTransfer(heap, f, shared, group) ==
    LET moved == MoveGroupLODs(heap,
                               [shared EXCEPT !.LODs[1].Meshes = RemoveAll(@, group.Items)],
                               <<[Meshes |-> group.Items, ScreenSize |-> shared.LODs[1].ScreenSize]>>,
                               group.Key, 1)
        setup == SetupMaterialSlots(heap, [f.dataThis EXCEPT !.Skeleton = shared.Skeleton,
                                                             !.Nodes = shared.Nodes,
                                                             !.LODs = moved.LODs],
                                    shared.Materials)
    IN  [meshes |-> setup.meshes,
         frame |-> [f EXCEPT !.dataThis = setup.data, !.dataIsThis = TRUE],
         shared |-> moved.shared]

\* lines 293-370: [meshes, frame, shared]
SelectObject(heap, f, shared, groups) ==
    IF /\ f.options.ObjectIndex >= 0
       /\ f.options.ObjectIndex < Len(groups)
       /\ IsModelType(f.options.Type)
    THEN IF f.dataIsThis
         THEN SelectDestructive(heap, f, groups[f.options.ObjectIndex + 1])
         ELSE SelectTransfer(heap, f, shared, groups[f.options.ObjectIndex + 1])
    ELSE [meshes |-> heap, frame |-> f, shared |-> shared]

\* Content at the path: the asset imported there before, if any
AssetAt(store, path) == IF store.Path = path THEN store.Asset ELSE NoAsset

\* lines 372-376 on the model d
RestoreMaterials(f, store, d) ==
    IF f.options.RestoreMaterialsOnReimport /\ Len(d.Materials) > 0
    THEN [d EXCEPT !.Materials = TryRestoreMaterials(AssetAt(store, f.context.TargetAssetPath), @)]
    ELSE d

\* a plausible slip: a LOD 0 of one mesh is repacked as well
RepackLightmapUVsSingleMesh(heap, f, d) ==
    IF /\ f.options.Type = "Model"
       /\ f.options.LightmapUVsSource = "Generate"
       /\ Len(d.LODs) > 0
       /\ Len(d.LODs[1].Meshes) > 0
    THEN RepackMeshLightmapUVs(heap, d)
    ELSE heap

\* lines 378-383 on the model d
RepackLightmapUVs(heap, f, d) ==
    IF /\ f.options.Type = "Model"
       /\ f.options.LightmapUVsSource = "Generate"
       /\ Len(d.LODs) > 0
       /\ Len(d.LODs[1].Meshes) > 1
    THEN RepackMeshLightmapUVs(heap, d)
    ELSE heap

\* lines 293-383: [meshes, frame, shared]
PrepareObject(heap, f, shared, groups, store) ==
    LET sel == SelectObject(heap, f, shared, groups)
        d == RestoreMaterials(f, store, IF sel.frame.dataIsThis THEN sel.frame.dataThis ELSE sel.shared)
    IN  [meshes |-> RepackLightmapUVs(sel.meshes, f, d),
         frame |-> IF sel.frame.dataIsThis THEN [sel.frame EXCEPT !.dataThis = d, !.pc = "create"]
                   ELSE [sel.frame EXCEPT !.pc = "create"],
         shared |-> IF sel.frame.dataIsThis /\ Depth > 1 THEN sel.shared ELSE d]

\* lines 293-383: object selection, material restore, lightmap UVs
ImportSelect ==
    /\ Depth > 0
    /\ \/ Frame.pc = "select"
       \/ Frame.pc = "split" /\ Frame.groupIndex >= SplitCount(Frame)
    /\ LET r == PrepareObject(meshes, Frame, SharedData, CurrentGroups(Frame), prev)
       IN  /\ meshes' = r.meshes
           /\ frames' = IF Depth = 1 THEN <<r.frame>>
                        ELSE [frames EXCEPT ![1].dataThis = r.shared, ![Depth] = r.frame]
    /\ UNCHANGED <<input, calls, done, deleted, faults, prev, unitVars>>

\* lines 385-417: serialization, release of the unused meshes, metadata, return
ImportCreate ==
    /\ Depth > 0 /\ Frame.pc = "create"
    /\ \E fault \in {NoFault} \cup (IF faults < MaxFaults
                                    THEN CreateFaults(CurrentData(Frame), Frame.options) ELSE {}) :
          LET r == CreateAsset(Frame.context, CurrentData(Frame), Frame.options, fault)
          IN  /\ done' = Append(done, [Finished(Frame, r.result, r.context, CurrentData(Frame))
                                         EXCEPT !.Fault = fault])
              /\ faults' = IF fault = NoFault THEN faults ELSE faults + 1
    /\ deleted' = deleted \o Frame.meshesToDelete
    /\ frames' = Return(frames)
    /\ UNCHANGED <<meshes, input, calls, prev, unitVars>>

ImportNext == ImportParseFails \/ ImportBegin \/ SplitImport \/ SplitImportFails \/ ImportSelect \/ ImportCreate


-----------------------------------------------------------------------------
(* Initial states: the parsed scene and the import request *)

\* start of the ids of LOD k (1-based) in the heap
LodOffset(lodNames, k) == Sum([j \in 1..(k - 1) |-> Len(lodNames[j])])

AnimationNames == <<NameA, NameAB, NameCB, NameA>>

\* the scene the parser yields: a heap of meshes and the ModelData over it; the
\* meshes take the material slots in turn
BuildScene(lodNames, area, animations) ==
    LET flat == Concat(lodNames)
    IN  [meshes |-> [m \in 1..Len(flat) |-> MeshData(flat[m], m % MaxSlots, area)],
         data |-> [LODs |-> [k \in 1..Len(lodNames) |->
                               LodData([i \in 1..Len(lodNames[k]) |-> LodOffset(lodNames, k) + i], k)],
                   Materials |-> [i \in 1..MaxSlots |-> SourceSlot(i - 1)],
                   Skeleton |-> "skeleton", Nodes |-> "nodes",
                   Animations |-> SubSeq(AnimationNames, 1, animations)]]

\* flat scenes: no LOD at all, or LOD 0 alone with up to MaxMeshes meshes of any name
WideShapes == {<< >>} \cup {<<lod0>> : lod0 \in SeqsUpTo(Names, MaxMeshes)}

DeepNames == {NameA, NameAB}

SeqLens(ss) == Sum([k \in 1..Len(ss) |-> Len(ss[k])])

\* deep scenes: up to MaxLODs LODs over two names, LOD 0 with at most one mesh of
\* a name and up to MaxLodMeshes meshes in the further LODs together
DeepShapes ==
    UNION {{<<lod0>> \o rest : lod0 \in {<< >>, <<NameA>>, <<NameAB>>, <<NameA, NameAB>>, <<NameAB, NameA>>},
                               rest \in {r \in [1..n -> SeqsUpTo(DeepNames, MaxLodMeshes)] :
                                            SeqLens(r) <= MaxLodMeshes}} : n \in 1..(MaxLODs - 1)}

\* crowded scenes: three groups in LOD 0 and a LOD 1 of MaxMeshes meshes of the
\* two later groups, in any order
CrowdedShapes == {<<<<NameA, NameAB, NameCB>>, lod1>> : lod1 \in [1..MaxMeshes -> {NameAB, NameCB}]}

Options(type, split, objectIndex, restore, lightmap, sdf) ==
    [Type |-> type, SplitObjects |-> split, ObjectIndex |-> objectIndex,
     RestoreMaterialsOnReimport |-> restore, LightmapUVsSource |-> lightmap,
     GenerateSDF |-> sdf, Cached |-> FALSE]

NoStore == [Path |-> << >>, Asset |-> NoAsset]

\* number of mesh groups of a scene
GroupCount(shape) == IF shape = << >> THEN 0 ELSE Cardinality(Range(shape[1]))

Selection(split, objectIndex) == [split |-> split, objectIndex |-> objectIndex]

\* a split (it sets the object index itself), everything (-1), every group, and
\* one index past the groups
Selections(shape) ==
    {Selection(TRUE, -1)} \cup {Selection(FALSE, i) : i \in -1..GroupCount(shape)}

BasicSelections == {Selection(TRUE, -1), Selection(FALSE, -1), Selection(FALSE, 0)}

Request(shape, animations, type, sel, sdf) ==
    [scene |-> BuildScene(shape, Unit, animations),
     options |-> Options(type, sel.split, sel.objectIndex, FALSE, "Disable", sdf),
     store |-> NoStore]

\* imports of a scene as a model or skinned model
ModelRequests(shape) ==
    {Request(shape, 0, "Model", sel, FALSE) : sel \in Selections(shape)}
    \cup {Request(shape, 0, "Model", sel, TRUE) : sel \in BasicSelections}
    \cup {Request(shape, 0, "SkinnedModel", sel, FALSE) : sel \in BasicSelections}

\* imports of a scene as an animation: each number of clips, each object index
AnimationRequests(shape) ==
    {Request(shape, n, "Animation", sel, FALSE) :
        n \in 0..MaxAnimations,
        sel \in {Selection(TRUE, -1)} \cup {Selection(FALSE, i) : i \in -1..MaxAnimations}}

\* the paths a re-import looks at: the request's own and a split object's
TargetPaths == {TopTargetPath, SplitOutputPath(TopTargetPath, NameAB)}

\* re-imports of a scene as a model with material restore over an asset stored before
RestoreRequests(shape) ==
    {[scene |-> BuildScene(shape, Unit, 0),
      options |-> Options("Model", split, IF split THEN -1 ELSE 0, TRUE, "Disable", FALSE),
      store |-> [Path |-> path, Asset |-> asset]] :
        split \in BOOLEAN, path \in TargetPaths, asset \in PreviousAssets}

\* imports with generated lightmap UVs: meshes without and with area, every
\* selection of a model, and a skinned model
LightmapRequests(shape) ==
    {[scene |-> BuildScene(shape, area, 0),
      options |-> Options(rq.type, rq.sel.split, rq.sel.objectIndex, FALSE, "Generate", FALSE),
      store |-> NoStore] :
        area \in {0, Unit},
        rq \in {[type |-> "Model", sel |-> sel] : sel \in Selections(shape)}
               \cup {[type |-> "SkinnedModel", sel |-> Selection(FALSE, -1)]}}

\* the requests made on a scene
Requests(shape) ==
    (IF shape \in CrowdedShapes
     THEN {Request(shape, 0, "Model", sel, FALSE) : sel \in Selections(shape)}
     ELSE ModelRequests(shape))
    \cup (IF shape \in WideShapes THEN LightmapRequests(shape) ELSE {})
    \cup (IF shape \in WideShapes THEN RestoreRequests(shape) ELSE {})
    \cup (IF shape \in {<< >>, <<<<NameA>>>>} THEN AnimationRequests(shape) ELSE {})

UnitIdle == [pc |-> "none", data |-> EmptyModelData, ret |-> << >>]

ImportInit(scene, options, store) ==
    /\ meshes = scene.meshes
    /\ input = scene.data
    /\ frames = <<NewFrame(options, NewContext(TopInputPath, TopTargetPath))>>
    /\ calls = << >>
    /\ done = << >>
    /\ deleted = << >>
    /\ faults = 0
    /\ prev = store
    /\ pc = UnitIdle.pc
    /\ data = UnitIdle.data
    /\ ret = UnitIdle.ret

Init ==
    \E shape \in WideShapes \cup DeepShapes \cup CrowdedShapes : \E rq \in Requests(shape) :
       ImportInit(rq.scene, rq.options, rq.store)

Next == ImportNext

Spec == Init /\ [][Next]_vars

--------------------------------------------------------------------------------
\* SetupMaterialSlots on its own: a model of up to MaxSlotMeshes meshes in one or
\* two LODs over a source table of MaxSourceSlots slots

ImportIdle ==
    /\ frames = << >> /\ calls = << >> /\ done = << >> /\ deleted = << >>
    /\ faults = 0 /\ prev = NoStore

\* the models SetupMaterialSlots is called on: the callers clear Materials first
SlotsModel(slots, cut) ==
    LET n == Len(slots)
    IN  [meshes |-> [m \in 1..n |-> MeshData(NameA, slots[m], Unit)],
         data |-> [EmptyModelData EXCEPT
                      !.LODs = IF cut = n THEN <<LodData([m \in 1..n |-> m], 1)>>
                               ELSE <<LodData([m \in 1..cut |-> m], 1),
                                      LodData([m \in 1..(n - cut) |-> cut + m], 2)>>]]

SlotsInit ==
    /\ ImportIdle
    /\ \E n \in 0..MaxSlotMeshes : \E slots \in [1..n -> 0..(MaxSourceSlots - 1)] :
          \E cut \in {n, n \div 2} :
             LET model == SlotsModel(slots, cut)
             IN  /\ meshes = model.meshes
                 /\ data = model.data
                 /\ input = [meshes |-> model.meshes, data |-> model.data,
                             materials |-> [i \in 1..MaxSourceSlots |-> SourceSlot(i - 1)]]
    /\ pc = "SetupMaterialSlots"
    /\ ret = << >>

\* lines 173-191: the call
SlotsCall ==
    /\ pc = "SetupMaterialSlots"
    /\ LET r == SetupMaterialSlots(meshes, data, input.materials)
       IN  meshes' = r.meshes /\ data' = r.data
    /\ pc' = "done"
    /\ UNCHANGED <<input, ret, importVars>>

SlotsNext == SlotsCall

SpecSlots == SlotsInit /\ [][SlotsNext]_vars

\* the source slot index a mesh held before the call
SlotBefore(m) == input.meshes[m].MaterialSlotIndex

SlotsDone == pc = "done" /\ ImportIdle /\ "materials" \in DOMAIN input

\* the positions of the meshes of the model, in the order of the loops
Processed == AllMeshes(input.data)

\* the source slot indices in the order the loops meet them first
FirstEncountered ==
    LET firsts == SelectSeq([k \in 1..Len(Processed) |-> k],
                            LAMBDA k : \A j \in 1..(k - 1) : SlotBefore(Processed[j]) # SlotBefore(Processed[k]))
    IN  [k \in 1..Len(firsts) |-> SlotBefore(Processed[firsts[k]])]

\* C3: the table SetupMaterialSlots produces has one slot per distinct source
\* index the meshes referenced, two meshes of one source slot share the new
\* slot, and the new slots are in first-encountered order
C3_OneSlotPerDistinctIndex ==
    SlotsDone =>
        /\ Len(data.Materials) = Cardinality({SlotBefore(m) : m \in Range(Processed)})
        /\ \A m \in Range(Processed) : \A o \in Range(Processed) :
              SlotBefore(m) = SlotBefore(o) => meshes[m].MaterialSlotIndex = meshes[o].MaterialSlotIndex
        /\ data.Materials = [k \in 1..Len(FirstEncountered) |-> input.materials[FirstEncountered[k] + 1]]

\* C4: after SetupMaterialSlots every mesh holds a valid index into the new
\* table, the new slot there is the source slot the mesh referenced before,
\* and every slot of the new table is referenced by a mesh of the model
C4_SlotsValidAndReferenced ==
    SlotsDone =>
        /\ \A m \in Range(Processed) :
              /\ meshes[m].MaterialSlotIndex \in 0..(Len(data.Materials) - 1)
              /\ data.Materials[meshes[m].MaterialSlotIndex + 1] = input.materials[SlotBefore(m) + 1]
        /\ \A i \in 0..(Len(data.Materials) - 1) :
              \E m \in Range(Processed) : meshes[m].MaterialSlotIndex = i
        /\ \A m \in DOMAIN meshes : m \notin Range(Processed) => meshes[m] = input.meshes[m]

\* the call has run on four meshes in two LODs, two of them of one source slot
C4_Witness ==
    /\ SlotsDone
    /\ Len(Processed) = 4 /\ Len(data.LODs) = 2
    /\ [k \in 1..4 |-> SlotBefore(Processed[k])] = <<0, 2, 2, 5>>

--------------------------------------------------------------------------------
\* The grouping of lines 233-243 on its own: a LOD 0 of up to MaxGroupMeshes
\* meshes, grouped once as parsed and once in another order of the same meshes

\* the orders of a list of n meshes
MeshOrders(n) == {p \in [1..n -> 1..n] : \A i \in 1..n : \E j \in 1..n : p[j] = i}

GroupInit ==
    /\ ImportIdle
    /\ \E n \in 0..MaxGroupMeshes : \E names \in [1..n -> Names] : \E p \in MeshOrders(n) :
          /\ meshes = [m \in 1..n |-> MeshData(names[m], 0, Unit)]
          /\ input = [data |-> [EmptyModelData EXCEPT !.LODs = <<LodData([m \in 1..n |-> m], 1)>>],
                      permuted |-> [EmptyModelData EXCEPT !.LODs = <<LodData(p, 1)>>]]
    /\ data = EmptyModelData
    /\ pc = "GroupBy"
    /\ ret = << >>

\* lines 234-242 on the parsed order, under any order of the dictionary
GroupParsed ==
    /\ pc = "GroupBy"
    /\ \E keyOrder \in Orderings(KeysOf(meshes, input.data.LODs[1].Meshes)) :
          ret' = <<GroupMeshes(meshes, input.data, keyOrder)>>
    /\ pc' = "GroupByPermuted"
    /\ UNCHANGED <<meshes, data, input, importVars>>

\* lines 234-242 on the other order of the same meshes
GroupPermuted ==
    /\ pc = "GroupByPermuted"
    /\ \E keyOrder \in Orderings(KeysOf(meshes, input.permuted.LODs[1].Meshes)) :
          ret' = Append(ret, GroupMeshes(meshes, input.permuted, keyOrder))
    /\ pc' = "grouped"
    /\ UNCHANGED <<meshes, data, input, importVars>>

GroupNext == GroupParsed \/ GroupPermuted

SpecGroup == GroupInit /\ [][GroupNext]_vars

\* the keys of a list of groups
GroupKeys(groups) == [g \in 1..Len(groups) |-> groups[g].Key]

\* groups is a grouping of the mesh list ids: one group per name, each with
\* exactly the meshes of its name, strictly ascending keys
IsGrouping(groups, ids) ==
    /\ {groups[g].Key : g \in 1..Len(groups)} = {meshes[m].Name : m \in Range(ids)}
    /\ \A g \in 1..Len(groups) :
          /\ Range(groups[g].Items) = {m \in Range(ids) : meshes[m].Name = groups[g].Key}
          /\ Len(groups[g].Items) = Cardinality(Range(groups[g].Items))
    /\ \A g \in 1..(Len(groups) - 1) : Compare(groups[g].Key, groups[g + 1].Key) < 0

\* C5: the grouping has exactly one group per distinct LOD 0 mesh name, each
\* with exactly the LOD 0 meshes of that name, in strictly ascending key
\* order, and the sequence of keys is the same for every order of the meshes
C5_GroupingSortedAndStable ==
    /\ pc = "GroupByPermuted" => IsGrouping(ret[1], input.data.LODs[1].Meshes)
    /\ pc = "grouped" =>
          /\ IsGrouping(ret[1], input.data.LODs[1].Meshes)
          /\ IsGrouping(ret[2], input.permuted.LODs[1].Meshes)
          /\ GroupKeys(ret[1]) = GroupKeys(ret[2])

\* four meshes of three names were grouped in two different orders
C5_Witness ==
    /\ pc = "grouped"
    /\ Len(ret[1]) = 3
    /\ Len(input.data.LODs[1].Meshes) = 4
    /\ input.permuted.LODs[1].Meshes = <<4, 3, 2, 1>>
    /\ meshes[1].Name = NameCB /\ meshes[4].Name = NameA

--------------------------------------------------------------------------------
\* RepackMeshLightmapUVs on its own, pass by pass: a LOD 0 of up to MaxPackMeshes
\* meshes of areas 0..MaxArea, with or without a further LOD, and a crowded
\* LOD 0 of CrowdMeshes meshes of growing area

PackModel(areas, lods) ==
    [meshes |-> [m \in 1..(Len(areas) + lods - 1) |->
                    MeshData(NameA, 0, IF m <= Len(areas) THEN areas[m] ELSE Unit)],
     data |-> [EmptyModelData EXCEPT
                  !.LODs = [k \in 1..lods |->
                               IF k = 1 THEN LodData([m \in 1..Len(areas) |-> m], 1)
                               ELSE LodData(<<Len(areas) + k - 1>>, k)]]]

PackModels ==
    {PackModel(areas, lods) :
        areas \in UNION {[1..n -> {a * Unit : a \in 0..MaxArea}] : n \in 0..MaxPackMeshes},
        lods \in 1..2}
    \cup {PackModel([m \in 1..CrowdMeshes |-> 100 + 10 * m], 1)}

RepackInit ==
    /\ ImportIdle
    /\ \E model \in PackModels :
          /\ meshes = model.meshes
          /\ data = model.data
          /\ input = [meshes |-> model.meshes]
    /\ pc = "RepackMeshLightmapUVs"
    /\ ret = << >>

\* lines 55-93: the entries, the area sum, the first atlas size
RepackBegin ==
    /\ pc = "RepackMeshLightmapUVs"
    /\ ret' = RepackEnter(meshes, data)
    /\ pc' = "while"
    /\ UNCHANGED <<meshes, data, input, importVars>>

\* lines 94-127: one pass of the loop
RepackPass ==
    /\ pc = "while" /\ ret.running /\ ret.triesLeft # 0
    /\ LET r == RepackAttempt(meshes, ret)
       IN  meshes' = r.meshes /\ ret' = r.st
    /\ UNCHANGED <<pc, data, input, importVars>>

\* lines 94, 125, 128-129: the loop is left, the function returns
RepackReturn ==
    /\ pc = "while" /\ ~(ret.running /\ ret.triesLeft # 0)
    /\ pc' = "return"
    /\ UNCHANGED <<meshes, data, input, ret, importVars>>

RepackNext == RepackBegin \/ RepackPass \/ RepackReturn

SpecRepack == RepackInit /\ [][RepackNext]_vars

\* the function runs on once called: weak fairness of its three steps. The
\* two computing steps are told by the positions they connect, and ENABLED of
\* them is their guard: each changes ret whenever its guard holds
RepackFairness ==
    /\ \/ []<>(pc # "RepackMeshLightmapUVs")
       \/ []<><<pc = "RepackMeshLightmapUVs" /\ pc' = "while">>_vars
    /\ \/ []<>(~(pc = "while" /\ ret.running /\ ret.triesLeft # 0))
       \/ []<><<pc = "while" /\ pc' = "while">>_vars
    /\ WF_vars(RepackReturn)

SpecRepackFair == SpecRepack /\ RepackFairness

\* the function is in or past its loop
RepackRunning == pc \in {"while", "return"}

\* a region nothing was inserted into
IsFreshRegion(region) ==
    /\ Len(region) = 1
    /\ ~region[1].IsUsed

RepackBounded ==
    RepackRunning =>
        /\ ret.attempts <= TriesCount
        /\ ret.attempts > 0 => IsFreshRegion(ret.region)
        /\ ret.writes <= 1
        /\ ret.failed => ret.writes = 0
        /\ ret.writes = 1 => ~(ret.running /\ ret.triesLeft # 0)
        /\ ret.writes = 0 => meshes = input.meshes
        /\ ret.attempts = TriesCount => ret.triesLeft = 0
        /\ ret.attempts = TriesCount /\ ret.failed => meshes = input.meshes

RepackPassEffect ==
    pc = "while" /\ pc' = "while" =>
        /\ ret'.attempts = ret.attempts + 1
        /\ ret.writes = 0
        /\ ret'.region = <<PackRoot(ret.atlasSize)>>
        /\ ret'.failed => meshes' = meshes /\ ret'.atlasSize = (ret.atlasSize * 3) \div 2
        /\ ~ret'.failed => ret'.writes = 1 /\ ret'.atlasSize = ret.atlasSize

\* C6: RepackMeshLightmapUVs makes at most 10 passes and returns; every pass
\* starts on a fresh region, a failed pass grows atlasSize by 1.5 and leaves
\* all UVs alone, the UVs are rewritten at most once, by the first pass that
\* places every mesh and ends the loop, and after 10 failed passes the UVs are
\* as they were and the function just returns
C6_RepackBounded ==
    /\ []RepackBounded
    /\ [][RepackPassEffect]_vars
    /\ <>(pc = "return")

\* the crowded LOD 0 has failed ten passes and the function has returned
C6_Witness ==
    /\ pc = "return"
    /\ "attempts" \in DOMAIN ret
    /\ ret.attempts = TriesCount /\ ret.failed
    /\ Len(ret.entries) = CrowdMeshes

\* the lightmap UV rectangle of the mesh of entry i: its two corners
UVRect(i) == meshes[ret.entries[i].Mesh].LightmapUVs

\* two rectangles share no point
Disjoint(r, q) ==
    \/ r[2][1] < q[1][1] \/ q[2][1] < r[1][1]
    \/ r[2][2] < q[1][2] \/ q[2][2] < r[1][2]

\* x / atlasSize in the fixed-point arithmetic
DivAtlas(x) == (x * Unit) \div ret.atlasSize

\* C7: after a pass that placed every mesh, the UV rectangle of a mesh is
\* [offset, offset + scale] with offset = (slotX, slotY) / atlasSize and
\* scale = (slotWidth - padding, slotHeight - padding) / atlasSize, it lies in
\* [0,1]x[0,1], and the rectangles of two meshes are disjoint
C7_PackedRectsDisjoint ==
    RepackRunning /\ ret.writes = 1 =>
        LET padding == (4 * ret.atlasSize) \div 256
        IN  /\ \A i \in 1..Len(ret.entries) :
                  LET slot == ret.slots[i]
                      offset == <<DivAtlas(slot.X), DivAtlas(slot.Y)>>
                      scale == <<DivAtlas(slot.Width - padding), DivAtlas(slot.Height - padding)>>
                  IN  /\ UVRect(i) = <<offset, <<offset[1] + scale[1], offset[2] + scale[2]>> >>
                      /\ \A c \in 1..2 : 0 <= UVRect(i)[1][c] /\ UVRect(i)[1][c] <= UVRect(i)[2][c]
                                         /\ UVRect(i)[2][c] <= Unit
            /\ \A i \in 1..Len(ret.entries) : \A j \in 1..Len(ret.entries) :
                  i # j => Disjoint(UVRect(i), UVRect(j))

\* three meshes of different areas were placed by a pass after a failed one
C7_Witness ==
    /\ pc = "return"
    /\ "attempts" \in DOMAIN ret
    /\ ret.writes = 1 /\ ret.attempts >= 2
    /\ Len(ret.entries) = 3
    /\ ret.entries[1].Area < ret.entries[2].Area /\ ret.entries[2].Area < ret.entries[3].Area
    /\ meshes # input.meshes

--------------------------------------------------------------------------------
\* ImportModel::Create on its own: the model data of every scene shape, a
\* context without chunks

\* a plausible slip: the test of line 426 without its second half
HasNoLODs(modelData) == Len(modelData.LODs) = 0

\* line 426: the model has no LOD or no mesh in its LOD 0
HasNoMeshes(modelData) ==
    IF Len(modelData.LODs) = 0 THEN TRUE ELSE Len(modelData.LODs[1].Meshes) = 0

\* ModelData::CalculateLODsScreenSizes: the transition of LOD k set from its index
CalculateLODsScreenSizes(modelData) ==
    [modelData EXCEPT !.LODs = [k \in 1..Len(modelData.LODs) |->
                                  [modelData.LODs[k] EXCEPT !.ScreenSize = Unit \div (2 ^ (k - 1))]]]

\* CreateModel(context, modelData) of line 435: options is the null pointer
NullOptions == Options("Model", FALSE, -1, FALSE, "Disable", FALSE)

CreateInit ==
    /\ ImportIdle
    /\ \E shape \in WideShapes \cup DeepShapes :
          LET scene == BuildScene(shape, Unit, 0)
          IN  /\ meshes = scene.meshes
              /\ data = scene.data
              /\ input = [data |-> scene.data]
    /\ pc = "Create"
    /\ ret = [result |-> "none", context |-> NewContext(TopInputPath, TopTargetPath),
              fault |-> NoFault, serialized |-> FALSE]

\* lines 425-430: the model without meshes is refused
CreateRefuse ==
    /\ pc = "Create" /\ HasNoMeshes(data)
    /\ ret' = [ret EXCEPT !.result = "Error"]
    /\ pc' = "return"
    /\ UNCHANGED <<meshes, data, input, importVars>>

\* lines 432-433
CreateCalculate ==
    /\ pc = "Create" /\ ~HasNoMeshes(data)
    /\ data' = CalculateLODsScreenSizes(data)
    /\ pc' = "CreateModel"
    /\ UNCHANGED <<meshes, input, ret, importVars>>

\* line 435: the serializer runs and its result is returned
CreateSerialize ==
    /\ pc = "CreateModel"
    /\ \E fault \in {NoFault} \cup CreateFaults(data, NullOptions) :
          LET r == CreateModel(ret.context, data, NullOptions, fault)
          IN  ret' = [result |-> r.result, context |-> r.context, fault |-> fault, serialized |-> TRUE]
    /\ pc' = "return"
    /\ UNCHANGED <<meshes, data, input, importVars>>

CreateNext == CreateRefuse \/ CreateCalculate \/ CreateSerialize

SpecCreate == CreateInit /\ [][CreateNext]_vars

\* Create runs or has run
InCreate == pc \in {"Create", "CreateModel", "return"} /\ "serialized" \in DOMAIN ret

\* C12: Create on model data without LODs or without LOD 0 meshes returns
\* Error, has allocated no chunk and has not called CreateModel; CreateModel
\* is called only on a model with a mesh in its LOD 0, and only then is a
\* chunk allocated
C12_CreateRefusesEmpty ==
    InCreate =>
        /\ pc = "return" /\ HasNoMeshes(input.data) =>
              /\ ret.result = "Error"
              /\ ~ret.serialized
              /\ ret.context.Allocs = << >> /\ DOMAIN ret.context.Chunks = {}
        /\ pc = "CreateModel" \/ ret.serialized =>
              Len(input.data.LODs) > 0 /\ Len(input.data.LODs[1].Meshes) > 0
        /\ ret.context.Allocs # << >> => ret.serialized
        /\ pc = "return" /\ ~HasNoMeshes(input.data) => ret.serialized

\* Create has refused a model whose LOD 0 is empty over a LOD with meshes
C12_Witness ==
    /\ InCreate /\ pc = "return"
    /\ Len(input.data.LODs) >= 2
    /\ Len(input.data.LODs[1].Meshes) = 0 /\ Len(input.data.LODs[2].Meshes) > 0
    /\ ret.result = "Error" /\ ~ret.serialized

--------------------------------------------------------------------------------
\* The split fan-out

\* the options the top-level import was requested with
TopRequest == IF Depth > 0 THEN frames[1].request ELSE done[Len(done)].Request

\* the import is a split of a model or skinned model whose file was parsed
SplitOfModel ==
    /\ TopRequest.SplitObjects /\ IsModelType(TopRequest.Type)
    /\ IF Depth > 0 THEN frames[1].pc # "begin" ELSE done[Len(done)].Stage # "begin"

\* the names of the LOD 0 meshes of the parsed scene
SceneNames ==
    IF Len(input.LODs) = 0 THEN {} ELSE {meshes[m].Name : m \in Range(input.LODs[1].Meshes)}

\* the name at the index i of the ascending ordinal order
NameOfIndex(i) ==
    CHOOSE n \in SceneNames : Cardinality({o \in SceneNames : Compare(o, n) < 0}) = i

\* the loop over the siblings has ended
SplitLoopEnded == Depth = 0 \/ (Depth = 1 /\ frames[1].pc = "create")

\* C1: a split of a model over N name groups issues exactly N-1 orchestrator
\* calls, the k-th for the object index k, each with splitObjects=false and the
\* reference to the parsed scene and its groups, and the splitting call goes
\* on as the extraction of the object 0 with splitObjects=false
C1_SplitFanOut ==
    SplitOfModel =>
        /\ Len(calls) <= Max(Cardinality(SceneNames) - 1, 0)
        /\ SplitLoopEnded => Len(calls) = Max(Cardinality(SceneNames) - 1, 0)
        /\ \A k \in 1..Len(calls) :
              /\ calls[k].ObjectIndex = k
              /\ ~calls[k].SplitObjects
              /\ calls[k].Cached
              /\ calls[k].Depth = 1
        /\ \A k \in 2..Depth : frames[k].usesCache /\ ~frames[k].request.SplitObjects
        /\ Depth > 0 => frames[1].options.ObjectIndex = 0 /\ ~frames[1].options.SplitObjects
        /\ Depth = 0 => done[Len(done)].ObjectIndex = 0 /\ done[Len(done)].Depth = 1

\* a split over three names has ended after its two calls
C1_Witness ==
    /\ Depth = 0 /\ SplitOfModel
    /\ Cardinality(SceneNames) = 3
    /\ Len(calls) = 2 /\ Len(done) = 3

--------------------------------------------------------------------------------
\* The extraction of the objects

\* the LOD 0 meshes of the parsed scene with the name of the index i, in scene order
GroupMembers(i) ==
    SelectSeq(input.LODs[1].Meshes, LAMBDA m : meshes[m].Name = NameOfIndex(i))

\* the meshes of all LODs of a list of LOD mesh lists
MeshesOf(lods) == Range(Concat(lods))

\* the meshes still held by the shared scene
SharedMeshes == Range(AllMeshes(SharedData))

\* every call of the orchestrator has run the importer and all imports returned
AllSiblingsImported == Depth = 0 /\ Len(done) = Len(calls) + 1

\* C2: in a split of a model the object serialized for the index i holds in
\* its LOD 0 exactly the members of the group i, no mesh goes into two
\* objects, the meshes a sibling took are gone from the shared scene for every
\* later extraction, and when every sibling ran there is one object per group
C2_Extraction ==
    SplitOfModel =>
        /\ \A k \in 1..Len(done) :
              done[k].ObjectIndex < Cardinality(SceneNames) =>
                  /\ Len(done[k].LODs) > 0
                  /\ done[k].LODs[1] = GroupMembers(done[k].ObjectIndex)
        /\ \A k \in 1..Len(done) : \A l \in 1..Len(done) :
              k # l => MeshesOf(done[k].LODs) \cap MeshesOf(done[l].LODs) = {}
        /\ Depth > 0 =>
              /\ \A k \in 1..Len(done) : MeshesOf(done[k].LODs) \cap SharedMeshes = {}
              /\ Depth = 2 /\ frames[2].pc = "create" =>
                    Range(AllMeshes(frames[2].dataThis)) \cap SharedMeshes = {}
        /\ AllSiblingsImported /\ SceneNames # {} =>
              {done[k].ObjectIndex : k \in 1..Len(done)} = 0..(Cardinality(SceneNames) - 1)

\* a split over two names has serialized both objects, one with two LOD 0 meshes
C2_Witness ==
    /\ SplitOfModel /\ AllSiblingsImported
    /\ Len(done) = 2
    /\ \A k \in 1..2 : done[k].Result = "Ok"
    /\ \E k \in 1..2 : Len(done[k].LODs[1]) = 2

--------------------------------------------------------------------------------
\* The restore of the materials

\* the imports that came to their serialization
Created == {k \in 1..Len(done) : done[k].Stage = "create"}

\* a slot as the import made it, and as the restore leaves it over the slot src
IsFreshSlot(slot) == slot = SourceSlot(slot.Source)

IsRestoredSlot(slot, src) ==
    slot = [SourceSlot(slot.Source) EXCEPT !.Name = src.Name,
                                           !.ShadowsMode = src.ShadowsMode,
                                           !.AssetID = src.Material]

\* the import r finds a loaded model or skinned model at its path and is to restore
RestoreApplies(r) ==
    LET asset == AssetAt(prev, r.Path)
    IN  /\ r.Request.RestoreMaterialsOnReimport
        /\ asset.File /\ asset.Asset /\ asset.Loaded
        /\ asset.TypeName \in {"Model", "SkinnedModel"}

\* the model of r has meshes in every LOD and nothing failed in its serialization
SerializesCleanly(r) ==
    /\ r.Fault = NoFault
    /\ Len(r.LODs) > 0
    /\ \A l \in 1..Len(r.LODs) : Len(r.LODs[l]) > 0

\* C8: with the restore requested and a loaded model or skinned model at the
\* path, the new slot i below the length of the previous table has the name,
\* shadows mode and material of the previous slot i and every further slot is
\* as imported; without the request, or with the previous asset missing, not
\* loaded or of another type, every slot is as imported; and the result of the
\* import is the serializer's in every case
C8_RestorePositional ==
    \A k \in Created :
        IsModelType(done[k].Type) =>
            /\ \A i \in 1..Len(done[k].Materials) :
                  IF RestoreApplies(done[k]) /\ i <= Len(AssetAt(prev, done[k].Path).MaterialSlots)
                  THEN IsRestoredSlot(done[k].Materials[i], AssetAt(prev, done[k].Path).MaterialSlots[i])
                  ELSE IsFreshSlot(done[k].Materials[i])
            /\ SerializesCleanly(done[k]) => done[k].Result = "Ok"

\* a re-import over a model of one slot has restored its first slot and left
\* its second as imported
C8_Witness ==
    \E k \in Created :
        /\ RestoreApplies(done[k])
        /\ Len(AssetAt(prev, done[k].Path).MaterialSlots) = 1
        /\ Len(done[k].Materials) >= 2
        /\ done[k].Materials[1].Name = PreviousSlot(0).Name
        /\ IsFreshSlot(done[k].Materials[2])
        /\ done[k].Result = "Ok"

--------------------------------------------------------------------------------
\* The chunks and the metadata

ChunksOf(r) == DOMAIN r.Chunks

\* C9: an import that returned Ok for a model of L LODs has allocated exactly
\* the chunks 0 and 1..L, and the chunk 15 as well exactly when it is a Model
\* with generateSDF whose SDF generation succeeded; a SkinnedModel never has
\* the chunk 15; an Animation has the chunk 0 only; the meshes of the LOD k
\* are in the chunk k+1; a failed SDF generation gives Ok without the chunk 15
C9_ChunkLayout ==
    \A k \in Created :
        LET r == done[k]
            sdf == r.Type = "Model" /\ r.Request.GenerateSDF /\ r.Fault.kind # "sdf"
        IN  /\ r.Result = "Ok" =>
                  /\ IsModelType(r.Type) =>
                        /\ ChunksOf(r) = (0..Len(r.LODs)) \cup (IF sdf THEN {SDFChunk} ELSE {})
                        /\ \A l \in 1..Len(r.LODs) : r.Chunks[l].Meshes = r.LODs[l]
                  /\ r.Type = "SkinnedModel" => SDFChunk \notin ChunksOf(r)
                  /\ r.Type = "Animation" => ChunksOf(r) = {0}
                  /\ Range(r.Allocs) = ChunksOf(r) /\ Len(r.Allocs) = Cardinality(ChunksOf(r))
            /\ r.Fault.kind = "sdf" => r.Result = "Ok" /\ SDFChunk \notin ChunksOf(r)

\* a Model of three LODs with its SDF was serialized into the chunks 0..3 and 15
C9_Witness ==
    \E k \in Created :
        /\ done[k].Type = "Model" /\ done[k].Result = "Ok"
        /\ Len(done[k].LODs) = 3
        /\ ChunksOf(done[k]) = {0, 1, 2, 3, SDFChunk}

\* the allocation of a chunk failed during the import r
AllocationFailed(r) == r.Fault.kind = "alloc" /\ r.Fault.at \in Range(r.Allocs)

\* C10: when an allocation of a chunk fails the import returns
\* CannotAllocateChunk, the failed allocation is its last, and no metadata is
\* written; the metadata is written exactly when the import returns Ok
C10_AllocationFailureFatal ==
    /\ \A k \in 1..Len(done) :
          /\ AllocationFailed(done[k]) =>
                /\ done[k].Result = "CannotAllocateChunk"
                /\ done[k].Allocs[Len(done[k].Allocs)] = done[k].Fault.at
                /\ \A a \in 1..(Len(done[k].Allocs) - 1) : done[k].Allocs[a] # done[k].Fault.at
                /\ done[k].Fault.at \notin ChunksOf(done[k])
                /\ done[k].Metadata = << >>
          /\ done[k].Result = "CannotAllocateChunk" => AllocationFailed(done[k])
          /\ done[k].Metadata # << >> <=> done[k].Result = "Ok"
    /\ \A d \in 1..Depth : frames[d].context.Metadata = << >> /\ frames[d].context.Allocs = << >>

\* the allocation of the chunk of the second LOD failed after two that went well
C10_Witness ==
    \E k \in Created :
        /\ AllocationFailed(done[k])
        /\ done[k].Allocs = <<0, 1, 2>>
        /\ ChunksOf(done[k]) = {0, 1}
        /\ done[k].Result = "CannotAllocateChunk"

--------------------------------------------------------------------------------
\* The empty scene

\* the parsed scene has no LOD, or no mesh in its LOD 0: there are no groups
EmptyScene == Len(input.LODs) = 0 \/ Len(input.LODs[1].Meshes) = 0

\* the import r came past the parser, failed, and left no chunk and no metadata
FailedEmpty(r) ==
    /\ r.Result = "Error"
    /\ ChunksOf(r) = {} /\ r.Allocs = << >>
    /\ r.Metadata = << >>

--------------------------------------------------------------------------------
\* The order of the extractions of a split

\* the import is a split whose file was parsed
SplitParsed ==
    /\ TopRequest.SplitObjects
    /\ IF Depth > 0 THEN frames[1].pc # "begin" ELSE done[Len(done)].Stage # "begin"

\* the extraction of the invocation at depth d has begun: it is in or past
\* the steps that read and change the scene
Extracting(d) == frames[d].pc \in {"select", "create"}

SplitSequential ==
    SplitParsed =>
        /\ Depth <= 2
        /\ \A k \in 1..Len(calls) :
              /\ calls[k].ObjectIndex = k
              /\ calls[k].Depth = 1
              /\ calls[k].Returned <= Len(done)
              /\ \A j \in 1..Len(done) :
                    IF j <= calls[k].Returned
                    THEN done[j].Depth = 2 /\ done[j].ObjectIndex < k
                    ELSE done[j].Depth = 1 \/ done[j].ObjectIndex >= k
        /\ \A j \in 1..Len(done) :
              /\ done[j].Depth = 2 => done[j].ObjectIndex \in 1..Len(calls)
              /\ done[j].Depth = 1 => j = Len(done) /\ Depth = 0
              /\ \A i \in 1..(j - 1) :
                    /\ done[i].Depth = 2
                    /\ done[j].Depth = 2 => done[i].ObjectIndex < done[j].ObjectIndex
        /\ Depth = 2 =>
              /\ frames[1].pc = "split" /\ ~Extracting(1)
              /\ frames[1].groupIndex = Len(calls)
              /\ frames[2].options.ObjectIndex = Len(calls)
              /\ \A j \in 1..Len(done) : done[j].ObjectIndex < Len(calls)
        /\ Depth = 1 /\ Extracting(1) => Len(calls) = Max(SplitCount(frames[1]) - 1, 0)

\* a step that changes the shared scene or a mesh is the selection of the one
\* invocation that runs, and a sibling's step leaves the splitting call where it is
SplitExclusive ==
    SplitParsed /\ Depth > 0 /\ Depth' > 0 =>
        /\ (meshes' # meshes \/ (frames[1].pc # "begin" /\ frames'[1].dataThis # frames[1].dataThis)) =>
              /\ Frame.pc \in {"select", "split"}
              /\ Depth' = Depth /\ frames'[Depth].pc = "create"
              /\ \A d \in 1..(Depth - 1) : ~Extracting(d)
        /\ (Depth = 2 /\ Depth' = 2) => frames'[1].pc = frames[1].pc /\ frames'[1].groupIndex = frames[1].groupIndex

\* C13: in a split the orchestrator calls are issued in ascending object
\* index order by the splitting call alone, every sibling that ran has
\* returned before the next call is issued, the splitting call begins its own
\* selection only after the last call, and only the one running invocation
\* reads or changes the shared scene
C13_SiblingsSequential == []SplitSequential /\ [][SplitExclusive]_vars

\* the second sibling of a split over three names is at its serialization
\* after the first one returned, the splitting call waits in its loop
C13_Witness ==
    /\ SplitParsed /\ Depth = 2
    /\ frames[2].pc = "create" /\ frames[2].options.ObjectIndex = 2
    /\ Len(calls) = 2 /\ Len(done) = 1 /\ done[1].ObjectIndex = 1
    /\ frames[1].pc = "split"

--------------------------------------------------------------------------------
\* The depth of the recursion

\* the units of the parsed scene for the type of the request: the name groups
\* of a model, the clips of an animation
Units == IF IsModelType(TopRequest.Type) THEN Cardinality(SceneNames) ELSE Len(input.Animations)

\* the invocations of Import so far: the running ones and the returned ones
Invocations == Depth + Len(done)

--------------------------------------------------------------------------------
\* The splitting call and the results of its siblings

\* the meshes of the LOD k of the parsed scene that have the name of the group 0
PrimaryMeshes(k) == {m \in Range(input.LODs[k].Meshes) : meshes[m].Name = NameOfIndex(0)}

\* what the serializer returns for the import r by its own model and failure
OwnResult(r) ==
    LET natural == IF r.Type = "Animation"
                   THEN PackAnimationHeaderFails(input, IF r.ObjectIndex # -1 THEN r.ObjectIndex ELSE 0, NoFault)
                   ELSE Len(r.LODs) = 0 \/ \E l \in 1..Len(r.LODs) : Len(r.LODs[l]) = 0
    IN  IF natural \/ r.Fault.kind \in {"header", "pack"} THEN "Error"
        ELSE IF r.Fault.kind = "alloc" THEN "CannotAllocateChunk"
        ELSE "Ok"

\* a sibling of the split has failed: in the orchestrator or in its own import
SiblingFailed ==
    \/ \E j \in 1..Len(done) : done[j].Depth = 2 /\ done[j].Result # "Ok"
    \/ Depth = 0 /\ Len(done) < Len(calls) + 1

SplitIndependent ==
    SplitParsed =>
        /\ SplitLoopEnded => Len(calls) = Max(Units - 1, 0)
        /\ Depth = 0 =>
              LET r == done[Len(done)]
              IN  /\ r.Depth = 1 /\ r.Stage = "create" /\ r.ObjectIndex = 0
                  /\ r.Result = OwnResult(r)
                  /\ IsModelType(r.Type) /\ Units > 0 =>
                        /\ Len(r.LODs) = Len(input.LODs)
                        /\ r.LODs[1] = GroupMembers(0)
                        /\ \A l \in 1..Len(r.LODs) :
                              /\ Range(r.LODs[l]) = PrimaryMeshes(l)
                              /\ Len(r.LODs[l]) = Cardinality(PrimaryMeshes(l))
        /\ \A j \in 1..Len(done) : done[j].Result = OwnResult(done[j])

\* what has returned stays as it returned
DonePersists == Len(done') >= Len(done) /\ \A j \in 1..Len(done) : done'[j] = done[j]

\* C15: in a split every unit after the first is handed to the orchestrator
\* whatever the earlier calls returned, the splitting call then serializes the
\* group 0 of the parsed scene and returns what its own serialization gives,
\* and the record of an import that returned is never changed afterwards
C15_PrimaryIndependent == []SplitIndependent /\ [][DonePersists]_vars

\* the first sibling of three units failed, the second was still imported
\* with Ok and the splitting call returned Ok
C15_Witness ==
    /\ SplitParsed /\ Depth = 0 /\ Units = 3
    /\ Len(done) = 3
    /\ done[1].Depth = 2 /\ done[1].Result # "Ok"
    /\ done[2].Depth = 2 /\ done[2].Result = "Ok" /\ done[2].Metadata # << >>
    /\ done[3].Depth = 1 /\ done[3].Result = "Ok"

--------------------------------------------------------------------------------
\* The selection in destructive mode

\* the invocation f is to select a group out of the model it parsed itself
DestructiveApplies(f) ==
    /\ f.pc \in {"select", "split"} /\ f.dataIsThis
    /\ IsModelType(f.options.Type)
    /\ f.options.ObjectIndex >= 0 /\ f.options.ObjectIndex < Len(f.meshesByName)

\* the selection step of the top-level invocation, from the model it finds
\* to the model it leaves
DestructiveEffect ==
    Depth = 1 /\ Depth' = 1 /\ DestructiveApplies(frames[1]) /\ frames'[1].pc = "create" =>
        LET pre == frames[1].dataThis.LODs
            post == frames'[1].dataThis.LODs
            group == frames[1].meshesByName[frames[1].options.ObjectIndex + 1]
            released == frames'[1].meshesToDelete
            before == Range(AllMeshes(frames[1].dataThis))
            retained == Range(AllMeshes(frames'[1].dataThis))
        IN  /\ Len(post) = Len(pre)
            /\ post[1].Meshes = group.Items
            /\ Range(post[1].Meshes) = {m \in Range(pre[1].Meshes) : meshes[m].Name = group.Key}
            /\ Len(post[1].Meshes) = Cardinality(Range(post[1].Meshes))
            /\ \A k \in 2..Len(pre) : post[k].Meshes = SelectByName(meshes, pre[k].Meshes, group.Key)
            /\ \A k \in 1..Len(pre) : post[k].ScreenSize = pre[k].ScreenSize
            /\ Range(released) = before \ retained
            /\ Len(released) = Cardinality(Range(released))
            /\ frames[1].meshesToDelete = << >>

\* the release of lines 399-400: the meshes to delete, once, whatever the result
ReleaseEffect ==
    Depth > 0 /\ Frame.pc = "create" /\ Depth' = Depth - 1 =>
        deleted' = deleted \o Frame.meshesToDelete

\* no mesh is released twice, and no artifact holds a released mesh
ReleasedOnce ==
    /\ Len(deleted) = Cardinality(Range(deleted))
    /\ \A j \in 1..Len(done) : MeshesOf(done[j].LODs) \cap Range(deleted) = {}
    /\ \A d \in 1..Depth :
          /\ Range(frames[d].meshesToDelete) \cap Range(deleted) = {}
          /\ Range(frames[d].meshesToDelete) \cap Range(AllMeshes(frames[d].dataThis)) = {}

\* C16: the selection of the group g in destructive mode leaves in LOD 0 the
\* members of g and in every further LOD the meshes of that LOD with the key
\* of g in the order it found them, keeps the number of LODs, puts every other
\* mesh of the model once on the list that lines 399-400 release after the
\* serialization, and no mesh is both kept and released
C16_DestructiveSelection == []ReleasedOnce /\ [][DestructiveEffect /\ ReleaseEffect]_vars

\* the group 1 was taken out of a scene of two LODs with two names each: one
\* mesh is kept in each LOD and the two others were released
C16_Witness ==
    /\ Depth = 0 /\ Len(done) = 1
    /\ ~done[1].Request.SplitObjects /\ done[1].Request.ObjectIndex = 1
    /\ Len(input.LODs) = 2 /\ Len(input.LODs[1].Meshes) = 2 /\ Len(input.LODs[2].Meshes) = 2
    /\ Len(done[1].LODs) = 2 /\ Len(done[1].LODs[1]) = 1 /\ Len(done[1].LODs[2]) = 1
    /\ Len(deleted) = 2
    /\ done[1].Result = "Ok"

--------------------------------------------------------------------------------
\* The selection in transfer mode

\* the invocation at depth 2 is to take a group out of the shared scene
TransferApplies ==
    /\ Depth = 2 /\ frames[2].pc = "select" /\ ~frames[2].dataIsThis
    /\ IsModelType(frames[2].options.Type)
    /\ frames[2].options.ObjectIndex >= 0 /\ frames[2].options.ObjectIndex < Len(SharedGroups)

\* the list ids without the meshes of the set taken
Without(ids, taken) == SelectSeq(ids, LAMBDA m : m \notin taken)

\* the selection step of a sibling, from the shared scene it finds to the one
\* it leaves; ordered: the meshes left in a LOD keep their order
TransferEffect(ordered) ==
    TransferApplies /\ Depth' = 2 /\ frames'[2].pc = "create" =>
        LET pre == frames[1].dataThis
            post == frames'[1].dataThis
            moved == Range(AllMeshes(frames'[2].dataThis))
        IN  /\ post.Skeleton = pre.Skeleton /\ post.Nodes = pre.Nodes
            /\ post.Materials = pre.Materials /\ post.Animations = pre.Animations
            /\ Len(post.LODs) = Len(pre.LODs)
            /\ \A k \in 1..Len(pre.LODs) :
                  /\ post.LODs[k].ScreenSize = pre.LODs[k].ScreenSize
                  /\ Range(post.LODs[k].Meshes) = Range(pre.LODs[k].Meshes) \ moved
                  /\ Len(post.LODs[k].Meshes) = Cardinality(Range(post.LODs[k].Meshes))
                  /\ ordered => post.LODs[k].Meshes = Without(pre.LODs[k].Meshes, moved)
            /\ \A m \in Range(AllMeshes(post)) : meshes'[m] = meshes[m]
            /\ \A m \in moved : meshes[m].Name = SharedGroups[frames[2].options.ObjectIndex + 1].Key
            /\ frames'[1].meshesByName = frames[1].meshesByName

\* C17: an extraction in transfer mode leaves the skeleton, the nodes, the
\* material slots and the groups of the shared scene as they are and takes
\* only the meshes it moves, all of the name of its group, out of the LODs;
\* every other mesh stays in its LOD, once, with the material slot index it had
C17_TransferFrame == [][TransferEffect(FALSE)]_vars

\* C17 as stated: the meshes left in a LOD of the shared scene also keep
\* their relative order
C17_TransferFrameOrdered == [][TransferEffect(TRUE)]_vars

\* the first sibling took its mesh out of a LOD 0 of three meshes: the two of
\* the other groups are left, in the other order than the parser gave them
C17_Witness ==
    /\ Depth = 2 /\ frames[2].pc = "create" /\ frames[2].dataIsThis
    /\ frames[2].options.ObjectIndex = 1
    /\ Len(input.LODs[1].Meshes) = 3
    /\ Len(SharedData.LODs[1].Meshes) = 2
    /\ Range(SharedData.LODs[1].Meshes) = Range(input.LODs[1].Meshes) \ Range(AllMeshes(frames[2].dataThis))
    /\ SharedData.LODs[1].Meshes # Without(input.LODs[1].Meshes, Range(AllMeshes(frames[2].dataThis)))
    /\ SharedData.Materials = input.Materials

-----------------------------------------------------------------------------
(* C18: the transfer stops at the first LOD without a mesh of the name *)

\* the LODs (1-based) of model d with a mesh of the name
LODsWith(heap, d, key) ==
    {k \in 1..Len(d.LODs) : \E i \in 1..Len(d.LODs[k].Meshes) : heap[d.LODs[k].Meshes[i]].Name = key}

\* the first LOD after LOD 0 (1-based, one past the last if none) without a mesh of the name
FirstGap(heap, d, key) ==
    CHOOSE k \in 2..(Len(d.LODs) + 1) :
        /\ k \notin LODsWith(heap, d, key)
        /\ \A j \in 2..(k - 1) : j \in LODsWith(heap, d, key)

TransferStops ==
    TransferApplies /\ Depth' = 2 /\ frames'[2].pc = "create" =>
        LET pre == frames[1].dataThis
            post == frames'[1].dataThis
            new == frames'[2].dataThis
            key == frames[1].meshesByName[frames[2].options.ObjectIndex + 1].Key
            gap == FirstGap(meshes, pre, key)
        IN  /\ Len(new.LODs) = gap - 1
            /\ new.LODs[1].Meshes = frames[1].meshesByName[frames[2].options.ObjectIndex + 1].Items
            /\ \A k \in 2..(gap - 1) :
                  /\ new.LODs[k].Meshes = SelectByName(meshes, pre.LODs[k].Meshes, key)
                  /\ new.LODs[k].ScreenSize = pre.LODs[k].ScreenSize
            /\ \A k \in gap..Len(pre.LODs) : post.LODs[k] = pre.LODs[k]
            /\ \A k \in 1..Len(new.LODs) : new.LODs[k].Meshes # << >>

\* C18: a transfer extraction takes LOD 0 of its group and then the meshes of
\* the name LOD by LOD up to the first LOD that has none; that LOD and every
\* later one are left as they are, meshes of the name included, and the new
\* model has no empty LOD
C18_TransferStopsAtGap == [][TransferStops]_vars

\* a sibling got fewer LODs than the scene has, and a LOD after the gap still
\* holds a mesh of its name
C18_Witness ==
    /\ Depth = 2 /\ frames[2].pc = "create" /\ frames[2].dataIsThis
    /\ IsModelType(frames[2].options.Type)
    /\ LET new == frames[2].dataThis
           key == meshes[new.LODs[1].Meshes[1]].Name
           gap == Len(new.LODs) + 1
       IN  /\ gap < Len(SharedData.LODs)
           /\ gap \notin LODsWith(meshes, SharedData, key)
           /\ \E k \in (gap + 1)..Len(SharedData.LODs) : k \in LODsWith(meshes, SharedData, key)

-----------------------------------------------------------------------------
(* C19: when the lightmap UVs stay as they are *)

\* the lightmap UVs of every mesh
LightmapUVsOf(heap) == [m \in DOMAIN heap |-> heap[m].LightmapUVs]

\* the step of lines 293-383 of the running invocation
Selecting ==
    /\ Depth > 0 /\ Depth' = Depth
    /\ Frame.pc \in {"select", "split"}
    /\ frames'[Depth].pc = "create"

\* the model of the running invocation once the selection is made
SelectedData == IF frames'[Depth].dataIsThis THEN frames'[Depth].dataThis ELSE frames'[1].dataThis

\* the summed area of the LOD 0 meshes of model d is zero
ZeroArea(heap, d) ==
    /\ Len(d.LODs) > 0
    /\ \A i \in 1..Len(d.LODs[1].Meshes) : heap[d.LODs[1].Meshes[i]].Area = 0

LightmapUVsKept ==
    IF ~Selecting THEN LightmapUVsOf(meshes') = LightmapUVsOf(meshes)
    ELSE LET options == frames'[Depth].options
             d == SelectedData
         IN  /\ \/ options.Type # "Model"
                \/ options.LightmapUVsSource # "Generate"
                \/ Len(d.LODs) = 0
                \/ Len(d.LODs[1].Meshes) <= 1
                \/ ZeroArea(meshes, d)
                => LightmapUVsOf(meshes') = LightmapUVsOf(meshes)
             /\ ZeroArea(meshes, d) =>
                   LET st == RepackEnter(meshes, d)
                   IN  ~st.running /\ st.triesLeft = 0 /\ st.attempts = 0

\* C19: Import leaves the lightmap UVs of every mesh as they are when the type
\* is not Model, or the lightmap UVs source is not Generate, or LOD 0 has at
\* most one mesh after the selection, or the areas of the LOD 0 meshes sum to
\* zero; with a zero sum the packing loop is not entered
C19_LightmapUVsKept == [][LightmapUVsKept]_vars

\* a Model import with generated UVs selected a LOD 0 of several meshes, all
\* without area, and their UVs are the ones the parser gave
C19_Witness ==
    /\ Depth = 1 /\ Frame.pc = "create"
    /\ Frame.options.Type = "Model" /\ Frame.options.LightmapUVsSource = "Generate"
    /\ Len(CurrentData(Frame).LODs) > 0
    /\ Len(CurrentData(Frame).LODs[1].Meshes) > 1
    /\ ZeroArea(meshes, CurrentData(Frame))
    /\ \A m \in DOMAIN meshes : meshes[m].LightmapUVs = UnitChart

-----------------------------------------------------------------------------
(* C20: the two modes of the selection on the same group *)

\* the selection of the group by an import of the parsed scene on its own
\* (lines 300-333 on the scene as the parser gave it)
DirectSelection(heap, group) == SelectDestructive(heap, [frames[1] EXCEPT !.dataThis = input], group)

LODMeshes(d) == [k \in 1..Len(d.LODs) |-> d.LODs[k].Meshes]

\* a sibling of a split import without material restore selects its group
TransferSelects ==
    /\ TransferApplies /\ Depth' = 2 /\ frames'[2].pc = "create"
    /\ ~frames[2].options.RestoreMaterialsOnReimport

ModesAgree ==
    TransferSelects =>
        LET group == frames[1].meshesByName[frames[2].options.ObjectIndex + 1]
            direct == DirectSelection(meshes, group)
            kept == direct.frame.dataThis
            new == frames'[2].dataThis
        IN  /\ LODMeshes(new) = LODMeshes(kept)
            /\ new.Materials = kept.Materials
            /\ \A m \in Range(AllMeshes(new)) :
                  meshes'[m].MaterialSlotIndex = direct.meshes[m].MaterialSlotIndex

ModesAgreeToGap ==
    TransferSelects =>
        LET group == frames[1].meshesByName[frames[2].options.ObjectIndex + 1]
            direct == DirectSelection(meshes, group)
            kept == direct.frame.dataThis
            new == frames'[2].dataThis
            gap == FirstGap(meshes, input, group.Key)
        IN  /\ Len(kept.LODs) = Len(input.LODs)
            /\ Len(new.LODs) = gap - 1
            /\ new.LODs[1].Meshes = kept.LODs[1].Meshes
            /\ \A k \in 1..(gap - 1) :
                  /\ Range(new.LODs[k].Meshes) = Range(kept.LODs[k].Meshes)
                  /\ Len(new.LODs[k].Meshes) = Len(kept.LODs[k].Meshes)
                  /\ new.LODs[k].ScreenSize = kept.LODs[k].ScreenSize
            /\ gap <= Len(input.LODs) => kept.LODs[gap].Meshes = << >>
            /\ gap = Len(input.LODs) + 1 => Range(new.Materials) = Range(kept.Materials)
            /\ LODMeshes(new) = LODMeshes(kept) =>
                  /\ new.Materials = kept.Materials
                  /\ \A m \in Range(AllMeshes(new)) :
                        meshes'[m].MaterialSlotIndex = direct.meshes[m].MaterialSlotIndex

\* C20 as stated: a sibling of a split import gets the LODs, the meshes in
\* their order and the material slots that an import of its group on its own
\* selects from the same scene
C20_ModesAgree == [][ModesAgree]_vars

\* C20: a sibling of a split import gets the LODs of the scene up to the
\* first one without a mesh of its name, each with the meshes, LOD 0 also in
\* the order, that an import of its group on its own selects; that import
\* keeps every LOD of the scene, the one of the gap empty. Without a gap both
\* use the same material slots, and with the same meshes in the same order in
\* every LOD the same material table and slot indices
C20_ModesAgreeToGap == [][ModesAgreeToGap]_vars

\* a sibling got its group from two LODs of a scene of two
C20_Witness ==
    /\ Depth = 2 /\ frames[2].pc = "create" /\ frames[2].dataIsThis
    /\ IsModelType(frames[2].options.Type)
    /\ Len(input.LODs) = 2
    /\ Len(frames[2].dataThis.LODs) = 2
    /\ LODMeshes(frames[2].dataThis) =
          LODMeshes(DirectSelection(meshes, SharedGroups[frames[2].options.ObjectIndex + 1]).frame.dataThis)

-----------------------------------------------------------------------------
(* C21: the output paths of the units of a split import *)

\* the output paths handed to the orchestrator so far, call by call
SplitPaths == [j \in 1..Len(calls) |-> calls[j].OutputPath]

SplitPathsDistinct == \A j, k \in 1..Len(calls) : j # k => SplitPaths[j] # SplitPaths[k]

SplitPathsNotPrimary == \A j \in 1..Len(calls) : SplitPaths[j] # TopTargetPath

\* C21: the output paths derived for the sibling units of a split import are
\* pairwise distinct and all differ from the path of the primary artifact
C21_SplitPathsDistinct == SplitPathsDistinct /\ SplitPathsNotPrimary

================================================================================
